---- MODULE Spec2Model ----
(***************************************************************************)
(* Query-interpretation and dispatch core of the saturday-night MCP        *)
(* server: the cache layer (withCache), the tool dispatcher (MCPServer),   *)
(* the two query interpreters and the two source adapters.                 *)
(*                                                                         *)
(* Conventions.                                                            *)
(*  - A JavaScript object is a TLA+ record; a key that the object does not  *)
(*    have is a field outside DOMAIN.  A string-valued slot that holds     *)
(*    `undefined` holds the string Undefined.                              *)
(*  - A thrown exception is the record [threw |-> TRUE, message |-> m];    *)
(*    operators that can throw return either that or                       *)
(*    [threw |-> FALSE, value |-> v].                                      *)
(*  - Time is Date.now() in milliseconds.                                  *)
(***************************************************************************)
EXTENDS Integers, Sequences, FiniteSets, TLC

VARIABLES
    now,          \* Date.now(), milliseconds
    memoryCache,  \* cache.ts: the module-level Map  key -> {expires, value}
    kvStore,      \* the KV namespace: key -> {raw, expiration}
    wrapper,      \* which withCache built the wrappers: [impl, kv]
    invocation,   \* number of invocations of the underlying function so far
    stored,       \* history: key -> {at, value} of the last completed store
    pc,           \* per caller: "idle", "pending" (awaiting fn), "returned"
    call,         \* per caller: the withCache call in flight
    resp,         \* per caller: what the call returned or threw
    server,       \* the MCPServer that was constructed: build and configuration
    tokens,       \* QuickBooksService: accessToken, refreshToken, companyId
    request,      \* the request handleRequest is working on
    response,     \* the envelope handleRequest returned
    stage,        \* "idle", "awaiting" (an adapter call is out), "responded"
    served,       \* number of requests answered so far
    fx,           \* history of the request: what it touched
    applied       \* a function called on its own: its name, input and output

harnessVars == <<invocation, stored, pc, call, resp>>
serverVars == <<server, tokens, request, response, stage, served, fx>>
vars == <<now, memoryCache, kvStore, wrapper, harnessVars, serverVars, applied>>

-----------------------------------------------------------------------------
(* Bounds of the model *)

NumCallers == 2
TickMs == 150000
MaxNow == 450000
MaxInvocations == 2
MaxRequests == 2
MaxPhrases == 2
MaxRecords == 12

Callers == 1..NumCallers

-----------------------------------------------------------------------------
(* JavaScript values *)

Undefined == "<undefined>"
JsNull == [null |-> TRUE]
EmptyObject == [k \in {} |-> Undefined]

Has(obj, k) == k \in DOMAIN obj
SetField(obj, k, v) == [x \in DOMAIN obj \cup {k} |-> IF x = k THEN v ELSE obj[x]]
\* `if (present) obj[k] = v`
SetFieldIf(obj, present, k, v) == IF present THEN SetField(obj, k, v) ELSE obj

Threw(m) == [threw |-> TRUE, message |-> m]
Returned(v) == [threw |-> FALSE, value |-> v]

(* JSON.  An object that can hold a key whose value is undefined lists     *)
(* those keys in its field `undef`; JSON.stringify drops them, so the text  *)
(* of an object is the object with `undef` emptied.  A number or an object *)
(* without such keys is written as it is.                                  *)
JsonText(v) == [json |-> v]
JsonParse(s) == s.json
StringifyPlain(v) == JsonText(v)
StringifyObject(o) == JsonText([o EXCEPT !.undef = {}])

-----------------------------------------------------------------------------
(* Cache layer: withCache *)

ttlSeconds == 300
MsPerSecond == 1000

MapPut(m, k, v) == [x \in DOMAIN m \cup {k} |-> IF x = k THEN v ELSE m[x]]

\* `${fn.name}:${JSON.stringify(args)}`, given the text of args
CacheKey(fnName, argsText) == <<fnName, argsText>>

\* memHit && memHit.expires > now
MemFresh_inclusive(key, t) ==
    key \in DOMAIN memoryCache /\ memoryCache[key].expires >= t
MemFresh(key, t) ==
    key \in DOMAIN memoryCache /\ memoryCache[key].expires > t

\* kv.get(key, {type: 'json'}): null for a key that is absent or whose
\* expirationTtl has run out, else the parsed text
KvGet(key, t) ==
    IF key \in DOMAIN kvStore /\ kvStore[key].expiration > t
    THEN JsonParse(kvStore[key].raw)
    ELSE JsNull

\* the lookup half of cachedFn: [hit, value]
CacheLookup(key, t) ==
    IF wrapper.kv
    THEN LET kvHit == KvGet(key, t) IN [hit |-> kvHit # JsNull, value |-> kvHit]
    ELSE IF MemFresh(key, t)
         THEN [hit |-> TRUE, value |-> memoryCache[key].value]
         ELSE [hit |-> FALSE, value |-> JsNull]

\* the expiry stamp of a new in-process entry: Date.now() + ttlSeconds * 1000
\* in the wrapper that takes a KV namespace, now + ttlSeconds * 1000 with the
\* `now` of the lookup in the in-process-only wrapper
MemExpires_unscaled(lookupNow, t) ==
    IF wrapper.impl = "kvCapable" THEN t + ttlSeconds ELSE lookupNow + ttlSeconds
MemExpires(lookupNow, t) ==
    IF wrapper.impl = "kvCapable"
    THEN t + ttlSeconds * MsPerSecond
    ELSE lookupNow + ttlSeconds * MsPerSecond

\* the store half of cachedFn, as the next values of the two backends
MemoryAfterStore_keepFirst(key, result, lookupNow, t) ==
    IF wrapper.kv \/ key \in DOMAIN memoryCache
    THEN memoryCache
    ELSE MapPut(memoryCache, key,
                [expires |-> MemExpires(lookupNow, t), value |-> result])
MemoryAfterStore(key, result, lookupNow, t) ==
    IF wrapper.kv
    THEN memoryCache
    ELSE MapPut(memoryCache, key,
                [expires |-> MemExpires(lookupNow, t), value |-> result])

KvAfterStore(key, resultText, t) ==
    IF wrapper.kv
    THEN MapPut(kvStore, key,
                [raw |-> resultText,
                 expiration |-> t + ttlSeconds * MsPerSecond])
    ELSE kvStore

-----------------------------------------------------------------------------
(* The wrappers of tests/cache.test.ts: `original` and `refresher`, called   *)
(* with one number.  The result carries the serial number of the invocation *)
(* so that two invocations never return the same value.                     *)

HarnessArgs == {2, 3}
NoCall == [fn |-> "none"]
NoResp == [threw |-> FALSE]
NotApplied == [fn |-> "none"]

Wrappers ==
    { [impl |-> "kvCapable", kv |-> FALSE],
      [impl |-> "kvCapable", kv |-> TRUE],
      [impl |-> "memoryOnly", kv |-> FALSE] }

original(x, serial) == [value |-> x * 2, serial |-> serial]

CacheInit ==
    /\ now = 0
    /\ memoryCache = [k \in {} |-> JsNull]
    /\ kvStore = [k \in {} |-> JsNull]
    /\ wrapper \in Wrappers
    /\ invocation = 0
    /\ stored = [k \in {} |-> JsNull]
    /\ pc = [c \in Callers |-> "idle"]
    /\ call = [c \in Callers |-> NoCall]
    /\ resp = [c \in Callers |-> NoResp]
    /\ server = JsNull
    /\ tokens = JsNull
    /\ request = JsNull
    /\ response = JsNull
    /\ stage = "idle"
    /\ served = 0
    /\ fx = JsNull
    /\ applied = NotApplied

\* cachedFn(x) up to the call of fn: the key, the lookup, and on a miss the
\* invocation of the underlying function
CachedCall(c, x) ==
    /\ pc[c] = "idle"
    /\ invocation < MaxInvocations
    /\ LET key == CacheKey("original", StringifyPlain(<<x>>))
           look == CacheLookup(key, now)
           this == [fn |-> "original", arg |-> x, key |-> key, startedAt |-> now,
                    prior |-> IF key \in DOMAIN stored THEN stored[key] ELSE JsNull,
                    entry |-> IF key \in DOMAIN memoryCache
                              THEN memoryCache[key] ELSE JsNull,
                    invoked |-> ~look.hit,
                    serial |-> IF look.hit THEN 0 ELSE invocation + 1]
       IN /\ call' = [call EXCEPT ![c] = this]
          /\ IF look.hit
             THEN /\ resp' = [resp EXCEPT ![c] = Returned(look.value)]
                  /\ pc' = [pc EXCEPT ![c] = "returned"]
                  /\ UNCHANGED invocation
             ELSE /\ pc' = [pc EXCEPT ![c] = "pending"]
                  /\ invocation' = invocation + 1
                  /\ UNCHANGED resp
    /\ UNCHANGED <<now, memoryCache, kvStore, wrapper, stored, serverVars, applied>>

\* fn resolves: the result is stored and returned
FnResolve(c) ==
    /\ pc[c] = "pending"
    /\ LET result == original(call[c].arg, call[c].serial)
           key == call[c].key
       IN /\ memoryCache' = MemoryAfterStore(key, result, call[c].startedAt, now)
          /\ kvStore' = KvAfterStore(key, StringifyPlain(result), now)
          /\ stored' = MapPut(stored, key,
                              [at |-> now,
                               value |-> IF wrapper.kv
                                         THEN JsonParse(StringifyPlain(result))
                                         ELSE result])
          /\ resp' = [resp EXCEPT ![c] = Returned(result)]
    /\ pc' = [pc EXCEPT ![c] = "returned"]
    /\ UNCHANGED <<now, wrapper, invocation, call, serverVars, applied>>

\* fn rejects: `await fn(...args)` throws, nothing after it runs
FnReject_storesFailure(c) ==
    /\ pc[c] = "pending"
    /\ memoryCache' = MemoryAfterStore(call[c].key, Threw("fn rejected"),
                                       call[c].startedAt, now)
    /\ kvStore' = KvAfterStore(call[c].key, StringifyPlain(Threw("fn rejected")), now)
    /\ resp' = [resp EXCEPT ![c] = Threw("fn rejected")]
    /\ pc' = [pc EXCEPT ![c] = "returned"]
    /\ UNCHANGED <<now, wrapper, invocation, stored, call, serverVars, applied>>
FnReject(c) ==
    /\ pc[c] = "pending"
    /\ resp' = [resp EXCEPT ![c] = Threw("fn rejected")]
    /\ pc' = [pc EXCEPT ![c] = "returned"]
    /\ UNCHANGED <<now, memoryCache, kvStore, wrapper, invocation, stored, call, serverVars, applied>>

\* the caller takes the outcome
Return(c) ==
    /\ pc[c] = "returned"
    /\ pc' = [pc EXCEPT ![c] = "idle"]
    /\ call' = [call EXCEPT ![c] = NoCall]
    /\ resp' = [resp EXCEPT ![c] = NoResp]
    /\ UNCHANGED <<now, memoryCache, kvStore, wrapper, invocation, stored, serverVars, applied>>

Tick ==
    /\ now + TickMs <= MaxNow
    /\ now' = now + TickMs
    /\ UNCHANGED <<memoryCache, kvStore, wrapper, invocation, stored, pc, call, resp, serverVars, applied>>

CacheNext ==
    \/ \E c \in Callers, x \in HarnessArgs : CachedCall(c, x)
    \/ \E c \in Callers : FnResolve(c)
    \/ \E c \in Callers : FnReject(c)
    \/ \E c \in Callers : Return(c)
    \/ Tick

CacheSpec == CacheInit /\ [][CacheNext]_vars

-----------------------------------------------------------------------------
(* Query text.  A text is the sequence of its words, separated by single     *)
(* blanks; "" is the empty sequence.  The vocabulary is chosen so that each *)
(* regular expression of the interpreters sees a word either whole or not   *)
(* at all: no word has "sheet", "tab", "id", "info", "last", "invoice" or   *)
(* another keyword as a proper part except the ones listed in Containing,   *)
(* and every word is made of letters and digits only, but for the ISO dates *)
(* that occur in invoice texts alone.                                       *)

LowerTable ==
    ("First" :> "first") @@ ("Info" :> "info") @@ ("Name" :> "name")
    @@ ("Amount" :> "amount") @@ ("Region" :> "region")
Lower(w) == IF w \in DOMAIN LowerTable THEN LowerTable[w] ELSE w

NumberOf ==
    ("2" :> 2) @@ ("3" :> 3) @@ ("5" :> 5) @@ ("100" :> 100) @@ ("1000000" :> 1000000)
IsDigits(w) == w \in DOMAIN NumberOf

\* yyyy-mm-dd words and their numbers
IsoParts ==
    ("2025-01-01" :> <<2025, 1, 1>>) @@ ("2025-01-31" :> <<2025, 1, 31>>)
    @@ ("2019-12-31" :> <<2019, 12, 31>>) @@ ("2026-01-01" :> <<2026, 1, 1>>)
    @@ ("2020-01-01" :> <<2020, 1, 1>>)
    @@ ("2025-06-15" :> <<2025, 6, 15>>) @@ ("2025-06-14" :> <<2025, 6, 14>>)
    @@ ("2025-06-08" :> <<2025, 6, 8>>) @@ ("2025-06-01" :> <<2025, 6, 1>>)
    @@ ("2025-05-01" :> <<2025, 5, 1>>) @@ ("2025-05-31" :> <<2025, 5, 31>>)
    @@ ("2025-03-05" :> <<2025, 3, 5>>) @@ ("2025-03-04" :> <<2025, 3, 4>>)
    @@ ("2025-03-02" :> <<2025, 3, 2>>) @@ ("2025-03-01" :> <<2025, 3, 1>>)
    @@ ("2025-02-23" :> <<2025, 2, 23>>) @@ ("2025-02-01" :> <<2025, 2, 1>>)
    @@ ("2025-02-28" :> <<2025, 2, 28>>) @@ ("2025-03-31" :> <<2025, 3, 31>>)
    @@ ("2019-03-01" :> <<2019, 3, 1>>) @@ ("2019-03-31" :> <<2019, 3, 31>>)
    @@ ("2026-03-01" :> <<2026, 3, 1>>) @@ ("2026-03-31" :> <<2026, 3, 31>>)
IsIsoDate(w) == w \in DOMAIN IsoParts
\* ISO dates order as their year, month and day do
DateNumber(d) == IsoParts[d][1] * 10000 + IsoParts[d][2] * 100 + IsoParts[d][3]

\* the dates `new Date()` arithmetic gives on a day, in a runtime whose local
\* time is UTC: 2025-06-15 is a Sunday, 2025-03-05 a Wednesday
Calendar ==
    ("2025-06-15" :>
        [yesterday |-> "2025-06-14", weekStart |-> "2025-06-15",
         lastWeekStart |-> "2025-06-08", lastWeekEnd |-> "2025-06-14",
         monthStart |-> "2025-06-01", lastMonthStart |-> "2025-05-01",
         lastMonthEnd |-> "2025-05-31", yearStart |-> "2025-01-01", year |-> 2025])
    @@ ("2025-03-05" :>
        [yesterday |-> "2025-03-04", weekStart |-> "2025-03-02",
         lastWeekStart |-> "2025-02-23", lastWeekEnd |-> "2025-03-01",
         monthStart |-> "2025-03-01", lastMonthStart |-> "2025-02-01",
         lastMonthEnd |-> "2025-02-28", yearStart |-> "2025-01-01", year |-> 2025])
Todays == DOMAIN Calendar

\* lowerQuery.includes of a text of several words
IncludesPhrase(q, words) ==
    \E i \in 1..(Len(q) - Len(words) + 1) :
        \A j \in 1..Len(words) : Lower(q[i + j - 1]) = words[j]

\* \d+ at the start of a word: the whole of a number, the year of a date
StartsWithDigits(w) == IsDigits(w) \/ IsIsoDate(w)
LeadingNumber(w) == IF IsIsoDate(w) THEN IsoParts[w][1] ELSE NumberOf[w]

LastChar ==
    ("First" :> "t") @@ ("Info" :> "o") @@ ("rows" :> "s") @@ ("2" :> "2")
    @@ ("3" :> "3") @@ ("5" :> "5") @@ ("100" :> "0") @@ ("abc123" :> "3")
    @@ ("id" :> "d") @@ ("top" :> "p") @@ ("spreadsheet" :> "t")
    @@ ("invoices" :> "s") @@ ("over" :> "r") @@ ("show" :> "w")
    @@ ("today" :> "y") @@ ("yesterday" :> "y") @@ ("week" :> "k") @@ ("month" :> "h")
    @@ ("year" :> "r") @@ ("march" :> "h") @@ ("sheet" :> "t") @@ ("1000000" :> "0")
    @@ ("2025-01-01" :> "1") @@ ("2025-01-31" :> "1") @@ ("2026-01-01" :> "1")
    @@ ("2019-12-31" :> "1") @@ ("info" :> "o") @@ ("range" :> "e")

\* the words of the vocabulary that contain the keyword
Containing(keyword) ==
    CASE keyword = "sheet" -> {"sheet", "spreadsheet"}
      [] keyword = "invoice" -> {"invoice", "invoices"}
      [] OTHER -> {keyword}

\* lowerQuery.includes(keyword)
Includes(q, keyword) ==
    \E i \in 1..Len(q) : Lower(q[i]) \in Containing(keyword)

Min(S) == CHOOSE x \in S : \A y \in S : x <= y
Max(S) == CHOOSE x \in S : \A y \in S : x >= y

\* /(?:first|last|top|limit|show)[\s]*(\d+)/i and its invoice variant without
\* `last`: the number after the leftmost keyword that has one
LimitAfter(q, keywords) ==
    LET at == {i \in 1..(Len(q) - 1) :
                  Lower(q[i]) \in keywords /\ StartsWithDigits(q[i + 1])}
    IN IF at = {} THEN 0 ELSE LeadingNumber(q[Min(at) + 1])
HasLimit(q, keywords) ==
    \E i \in 1..(Len(q) - 1) : Lower(q[i]) \in keywords /\ StartsWithDigits(q[i + 1])

-----------------------------------------------------------------------------
(* Tabular interpreter: GoogleSheetsService.parseQuery *)

DefaultSheetLimit == 5

\* /(?:spreadsheet|sheet)[\s\w]*id[:\s]*([a-zA-Z0-9-_]+)/i : a sheet word, later
\* the word "id" (the last one that has a word after it), and the word after it
InlineIdAt(q) ==
    {j \in 2..(Len(q) - 1) :
        /\ Lower(q[j]) = "id"
        /\ \E i \in 1..(j - 1) : Lower(q[i]) \in Containing("sheet")}
InlineId(q) == IF InlineIdAt(q) = {} THEN Undefined ELSE q[Max(InlineIdAt(q)) + 1]

\* a || b || c on strings: "" and undefined are falsy
Truthy(x) == x # Undefined /\ x # ""
FirstTruthy_overrideFirst(a, b, c) ==
    IF Truthy(b) THEN b ELSE IF Truthy(a) THEN a ELSE c
FirstTruthy(a, b, c) ==
    IF Truthy(a) THEN a ELSE IF Truthy(b) THEN b ELSE c

\* /(?:sheet|tab)[\s\w]*(?:named|called)?[\s]*["']?([^"'\n]+)["']?/i on a text
\* without quotes: [\s\w]* runs to the end of the text and gives back one
\* character, so the capture is the last character of the text
SheetNameOf(q) ==
    IF \E i \in 1..(Len(q) - 1) :
           Lower(q[i]) \in Containing("sheet") \cup Containing("tab")
    THEN LastChar[q[Len(q)]]
    ELSE Undefined

\* /(?:only|just|fields?|columns?)[\s]*[:]*[\s]*(.+?)(?:\s|$)/i then split: the
\* word after the leftmost keyword; a final "fields" or "columns" is read as
\* the keyword without its s, and the s is the capture
RequestedColumnsOf(q) ==
    LET keywords == {"only", "just", "field", "fields", "column", "columns"}
        at == {i \in 1..Len(q) :
                  /\ Lower(q[i]) \in keywords
                  /\ i < Len(q) \/ Lower(q[i]) \in {"fields", "columns"}}
    IN IF at = {} THEN <<>>
       ELSE IF Min(at) = Len(q) THEN <<"s">>
       ELSE <<q[Min(at) + 1]>>

SheetLimitWords == {"first", "last", "top", "limit", "show"}

\* parseQuery(query, overrideSpreadsheetId) of a service built with
\* defaultSpreadsheetId; keys whose value is undefined are left out
parseQuery(q, overrideSpreadsheetId, defaultSpreadsheetId) ==
    LET spreadsheetId ==
            FirstTruthy(InlineId(q), overrideSpreadsheetId, defaultSpreadsheetId)
        action ==
            IF Includes(q, "info") \/ Includes(q, "details") THEN "get_sheet_info"
            ELSE IF Includes(q, "range") \/ Includes(q, "cells") THEN "get_range"
            ELSE "get_rows"
        base == [action |-> action,
                 spreadsheetId |-> spreadsheetId,
                 limit |-> IF HasLimit(q, SheetLimitWords)
                           THEN LimitAfter(q, SheetLimitWords)
                           ELSE DefaultSheetLimit]
        withName == SetFieldIf(base, SheetNameOf(q) # Undefined,
                               "sheetName", SheetNameOf(q))
        withOffset == SetFieldIf(withName, ~Includes(q, "last"), "offset", 0)
        withColumns == SetFieldIf(withOffset, RequestedColumnsOf(q) # <<>>,
                                  "requestedColumns", RequestedColumnsOf(q))
    IN IF ~Truthy(spreadsheetId)
       THEN Threw(<<"No spreadsheet ID provided in query, parameter, or default configuration">>)
       ELSE Returned(withColumns)

-----------------------------------------------------------------------------
(* Tabular adapter: GoogleSheetsService.getSheetData / getSheetInfo.        *)
(* The spreadsheet behind the API is fixed; what varies is how far the     *)
(* three upstream requests (token, metadata, values) get.                  *)

UpstreamTitle == "Demo Sheet"
UpstreamSheets ==
    << [title |-> "Sheet1",
        values |-> << <<"Name", "Amount">>, <<"Alice", "10">>, <<"Bob", "20">>,
                      <<"Cara">>, <<"Dan", "40">> >>],
       [title |-> "Sales",
        values |-> << <<"Region">>, <<"North">> >>] >>

TitleLower == ("Sheet1" :> "sheet1") @@ ("Sales" :> "sales") @@ ("SALES" :> "sales")
LowerTitle(w) == IF w \in DOMAIN TitleLower THEN TitleLower[w] ELSE Lower(w)

SheetOutcomes == {"ok", "token_failed", "metadata_failed", "data_failed"}

\* the number of upstream requests getSheetData has sent when it settles
SheetFetches(outcome) ==
    CASE outcome = "token_failed" -> 1
      [] outcome = "metadata_failed" -> 2
      [] OTHER -> 3

\* sheets.find(sheet => title.toLowerCase() === sheetName.toLowerCase())
FindSheet(sheets, name) ==
    LET at == {i \in 1..Len(sheets) : LowerTitle(sheets[i].title) = LowerTitle(name)}
    IN IF at = {} THEN 0 ELSE Min(at)

\* the rows the values endpoint returns for `${sheet}!A1:Z${lastRow}`
\* (lastRow = 0 stands for `${sheet}!A:Z`)
ValuesInRange(sheets, range) ==
    LET at == {i \in 1..Len(sheets) : sheets[i].title = range.sheet}
        all == IF at = {} THEN <<>> ELSE sheets[Min(at)].values
    IN IF range.lastRow = 0 \/ range.lastRow >= Len(all)
       THEN all
       ELSE SubSeq(all, 1, range.lastRow)

\* Array.prototype.slice(from) and slice(0, n)
SliceFrom(rows, from) ==
    IF from >= Len(rows) THEN <<>> ELSE SubSeq(rows, from + 1, Len(rows))
SliceTo(rows, n) ==
    IF n >= Len(rows) THEN rows ELSE SubSeq(rows, 1, n)

\* row[index] || ''
CellOr(row, index) == IF index <= Len(row) THEN row[index] ELSE ""

\* header.includes(col) || col.includes(header), both lower-cased
\* the pairs <<a, b>> of different lower-cased words with a.includes(b)
ProperParts == {<<"amount", "amo">>, <<"name", "nam">>}
HeaderMatches(header, col) ==
    \/ Lower(header) = Lower(col)
    \/ <<Lower(header), Lower(col)>> \in ProperParts
    \/ <<Lower(col), Lower(header)>> \in ProperParts

\* the indices pushed by requestedColumns.forEach(... headers.findIndex ...)
RECURSIVE ColumnIndices(_, _)
ColumnIndices(headers, cols) ==
    IF cols = <<>> THEN <<>>
    ELSE LET at == {i \in 1..Len(headers) : HeaderMatches(headers[i], Head(cols))}
         IN (IF at = {} THEN <<>> ELSE <<Min(at)>>) \o ColumnIndices(headers, Tail(cols))

\* rowData[header] = row[index] || '' for each header; a repeated header keeps
\* the later cell
RowObject(headers, row) ==
    [h \in {headers[i] : i \in 1..Len(headers)} |->
        CellOr(row, Max({i \in 1..Len(headers) : headers[i] = h}))]

QueryInfo(params, t, withColumns) ==
    LET base == [executedAt |-> t,
                 undef |-> {k \in {"limit", "offset"} : ~Has(params, k)}
                           \cup (IF withColumns /\ ~Has(params, "requestedColumns")
                                 THEN {"filteredColumns"} ELSE {})]
        l == SetFieldIf(base, Has(params, "limit"), "limit", params.limit)
        o == SetFieldIf(l, Has(params, "offset"), "offset", params.offset)
    IN SetFieldIf(o, withColumns /\ Has(params, "requestedColumns"),
                  "filteredColumns", params.requestedColumns)

getSheetData(params, outcome, t) ==
    IF outcome = "token_failed"
    THEN Threw(<<"Failed to fetch sheet data: ", "Failed to get access token: ">>)
    ELSE IF outcome = "metadata_failed"
    THEN Threw(<<"Failed to fetch sheet data: ", "Failed to get spreadsheet metadata: ">>)
    ELSE
    LET sheets == UpstreamSheets
        found == IF Has(params, "sheetName") /\ Truthy(params.sheetName)
                 THEN FindSheet(sheets, params.sheetName) ELSE 0
        sheetName == IF Len(sheets) = 0 THEN "Sheet1"
                     ELSE sheets[IF found # 0 THEN found ELSE 1].title
        hasLimit == Has(params, "limit") /\ params.limit # 0
        range == IF Has(params, "range") THEN params.range
                 ELSE IF hasLimit
                      THEN [sheet |-> sheetName, lastRow |-> params.limit + 1]
                      ELSE [sheet |-> sheetName, lastRow |-> 0]
        filtering == Has(params, "requestedColumns") /\ Len(params.requestedColumns) > 0
        \* processedRows after `if (params.offset)` and after `if (params.limit)`
        afterOffset(dataRows) == IF Has(params, "offset") /\ params.offset # 0
                                 THEN SliceFrom(dataRows, params.offset) ELSE dataRows
        processedRows(rows) == IF hasLimit THEN SliceTo(rows, params.limit) ELSE rows
        \* filteredHeaders and filteredProcessedRows when columns are requested
        filteredBy(headers, rows, columnIndices) ==
            [headers |-> [i \in 1..Len(columnIndices) |-> headers[columnIndices[i]]],
             rows |-> [r \in 1..Len(rows) |->
                         [i \in 1..Len(columnIndices) |->
                             CellOr(rows[r], columnIndices[i])]]]
        filtered(headers, rows) ==
            IF filtering
            THEN filteredBy(headers, rows, ColumnIndices(headers, params.requestedColumns))
            ELSE [headers |-> headers, rows |-> rows]
        sheetData(dataRows, f) ==
            Returned([spreadsheetId |-> params.spreadsheetId,
                      sheetName |-> sheetName,
                      range |-> range,
                      headers |-> f.headers,
                      rows |-> [r \in 1..Len(f.rows) |-> RowObject(f.headers, f.rows[r])],
                      totalRows |-> Len(dataRows),
                      queryInfo |-> QueryInfo(params, t, TRUE)])
        fetched(values) ==
            IF Len(values) = 0
            THEN Returned([spreadsheetId |-> params.spreadsheetId,
                           sheetName |-> sheetName,
                           range |-> range,
                           headers |-> <<>>,
                           rows |-> <<>>,
                           totalRows |-> 0,
                           queryInfo |-> QueryInfo(params, t, FALSE)])
            ELSE sheetData(Tail(values),
                           filtered(values[1], processedRows(afterOffset(Tail(values)))))
    IN IF outcome = "data_failed"
       THEN Threw(<<"Failed to fetch sheet data: ", "Failed to get sheet data: ">>)
       ELSE fetched(ValuesInRange(sheets, range))

\* JSON.stringify of a SheetData: the undefined keys of queryInfo are dropped
StringifySheetData(data) ==
    JsonText([data EXCEPT !.queryInfo = [@ EXCEPT !.undef = {}]])

InfoOutcomes == {"ok", "token_failed", "metadata_failed"}

getSheetInfo(spreadsheetId, outcome) ==
    IF outcome = "token_failed"
    THEN Threw(<<"Failed to get sheet info: ", "Failed to get access token: ">>)
    ELSE IF outcome = "metadata_failed"
    THEN Threw(<<"Failed to get sheet info: ", "Failed to get sheet info: ">>)
    ELSE Returned([title |-> UpstreamTitle,
                   spreadsheetId |-> spreadsheetId,
                   sheets |-> [i \in 1..Len(UpstreamSheets) |->
                                  [name |-> UpstreamSheets[i].title, id |-> i - 1]],
                   totalSheets |-> Len(UpstreamSheets)])

\* formatForVerbalResponse(data, originalQuery): the parts of the sentence
VerbalDisplayCap == 10

SheetsVerbal(data) ==
    IF Len(data.rows) = 0
    THEN [text |-> "empty", sheetName |-> data.sheetName]
    ELSE LET displayLimit == IF Len(data.rows) < VerbalDisplayCap
                             THEN Len(data.rows) ELSE VerbalDisplayCap
             showing == /\ Has(data.queryInfo, "limit")
                        /\ data.queryInfo.limit # 0
                        /\ data.totalRows > data.queryInfo.limit
         IN [text |-> "rows",
             found |-> Len(data.rows),
             sheetName |-> data.sheetName,
             showingFirst |-> IF showing THEN data.queryInfo.limit ELSE 0,
             ofTotal |-> IF showing THEN data.totalRows ELSE 0,
             columns |-> data.headers,
             lines |-> SubSeq(data.rows, 1, displayLimit),
             more |-> Len(data.rows) - displayLimit]

\* generateConversationalContext(sheetData, originalQuery)
SheetsContext(data, query) ==
    [query |-> query,
     sheetName |-> data.sheetName,
     text |-> IF Len(data.rows) = 0 THEN "empty"
              ELSE IF Len(data.rows) <= 3 THEN "all" ELSE "more",
     found |-> Len(data.rows),
     columns |-> data.headers]

-----------------------------------------------------------------------------
(* Invoice interpreter: QuickBooksService.parseQuery *)

DefaultInvoiceLimit == 10
SentinelMaxAmount == 999999

InvoiceLimitWords == {"first", "top", "limit", "show"}

\* the first of the four datePatterns that matches somewhere in the text,
\* as <<pattern number, index of the first date>>; <<0, 0>> if none does
DatePatternMatch(q) ==
    LET n == Len(q)
        p1 == {i \in 1..(n - 2) : /\ IsIsoDate(q[i])
                                   /\ Lower(q[i + 1]) \in {"to", "through", "-", "until"}
                                   /\ IsIsoDate(q[i + 2])}
        p2 == {i \in 2..(n - 2) : /\ Lower(q[i - 1]) \in {"between", "from"}
                                   /\ IsIsoDate(q[i])
                                   /\ Lower(q[i + 1]) \in {"and", "to"}
                                   /\ IsIsoDate(q[i + 2])}
        p3 == {i \in 2..n : Lower(q[i - 1]) \in {"since", "after", "from"} /\ IsIsoDate(q[i])}
        p4 == {i \in 2..n : Lower(q[i - 1]) \in {"before", "until"} /\ IsIsoDate(q[i])}
    IN IF p1 # {} THEN <<1, Min(p1)>>
       ELSE IF p2 # {} THEN <<2, Min(p2)>>
       ELSE IF p3 # {} THEN <<3, Min(p3)>>
       ELSE IF p4 # {} THEN <<4, Min(p4)>>
       ELSE <<0, 0>>

\* new Date().toISOString().split('T')[0] while the server is at work
TodayIso == "2025-06-15"

\* `if (!dateRange)`: today, this week, this month, last month, in this
\* order; JsNull if the text has none of them
qbRelativeDateRange(q, today) ==
    IF Includes(q, "today") THEN [start |-> today, end |-> today]
    ELSE IF IncludesPhrase(q, <<"this", "week">>)
    THEN [start |-> Calendar[today].weekStart, end |-> today]
    ELSE IF IncludesPhrase(q, <<"this", "month">>)
    THEN [start |-> Calendar[today].monthStart, end |-> today]
    ELSE IF IncludesPhrase(q, <<"last", "month">>)
    THEN [start |-> Calendar[today].lastMonthStart, end |-> Calendar[today].lastMonthEnd]
    ELSE JsNull

\* $?(\d+(?:\.\d{2})?)\s*(?:to|and|-)\s*$?(\d+(?:\.\d{2})?) starting at word i:
\* inside a date it is year-month, else number, separator, number
AmountPairAt(q, i, separators) ==
    \/ IsIsoDate(q[i])
    \/ /\ i + 2 <= Len(q)
       /\ IsDigits(q[i])
       /\ Lower(q[i + 1]) \in separators
       /\ StartsWithDigits(q[i + 2])
AmountPair(q, i) ==
    IF IsIsoDate(q[i])
    THEN [min |-> IsoParts[q[i]][1], max |-> IsoParts[q[i]][2]]
    ELSE [min |-> NumberOf[q[i]], max |-> LeadingNumber(q[i + 2])]

\* the first of the four amountPatterns that matches, as
\* <<pattern number, index of the word of the first amount>>
AmountPatternMatch(q) ==
    LET n == Len(q)
        a1 == {i \in 3..n : /\ Lower(q[i - 2]) \in {"amount", "total", "value"}
                             /\ Lower(q[i - 1]) \in {"between", "from"}
                             /\ AmountPairAt(q, i, {"to", "and", "-"})}
        a2 == {i \in 1..n : AmountPairAt(q, i, {"to", "-"})}
        a3 == {i \in 2..n : \/ /\ Lower(q[i - 1]) \in {"over", "above"}
                                /\ StartsWithDigits(q[i])
                             \/ /\ i >= 3
                                /\ Lower(q[i - 2]) = "greater"
                                /\ Lower(q[i - 1]) = "than"
                                /\ StartsWithDigits(q[i])}
        a4 == {i \in 2..n : \/ /\ Lower(q[i - 1]) \in {"under", "below"}
                                /\ StartsWithDigits(q[i])
                             \/ /\ i >= 3
                                /\ Lower(q[i - 2]) = "less"
                                /\ Lower(q[i - 1]) = "than"
                                /\ StartsWithDigits(q[i])}
    IN IF a1 # {} THEN <<1, Min(a1)>>
       ELSE IF a2 # {} THEN <<2, Min(a2)>>
       ELSE IF a3 # {} THEN <<3, Min(a3)>>
       ELSE IF a4 # {} THEN <<4, Min(a4)>>
       ELSE <<0, 0>>

qbParseQuery(q, today) ==
    LET action ==
            IF Includes(q, "company") \/ Includes(q, "info") THEN "get_company_info"
            ELSE IF Includes(q, "invoice") /\ (\E i \in 1..Len(q) : StartsWithDigits(q[i]))
                 THEN "get_invoice"
                 ELSE "search_invoices"
        \* d and a: the date pattern and the amount pattern that matched
        dateRange(d) ==
            IF d[1] = 0 THEN qbRelativeDateRange(q, today)
            ELSE IF d[1] \in {1, 2} THEN [start |-> q[d[2]], end |-> q[d[2] + 2]]
            ELSE IF Includes(q, "since") \/ Includes(q, "after") \/ Includes(q, "from")
                 THEN [start |-> q[d[2]], end |-> today]
                 ELSE [start |-> "2020-01-01", end |-> q[d[2]]]
        amountRange(a) ==
            IF a[1] \in {1, 2}
            THEN AmountPair(q, a[2])
            ELSE IF Includes(q, "over") \/ Includes(q, "above") \/ Includes(q, "greater")
                 THEN [min |-> LeadingNumber(q[a[2]]), max |-> SentinelMaxAmount]
                 ELSE [min |-> 0, max |-> LeadingNumber(q[a[2]])]
        base(range, a) ==
            [action |-> action,
             limit |-> IF HasLimit(q, InvoiceLimitWords)
                       THEN LimitAfter(q, InvoiceLimitWords)
                       ELSE DefaultInvoiceLimit,
             undef |-> (IF range = JsNull THEN {"dateRange"} ELSE {})
                       \cup (IF a[1] = 0 THEN {"amountRange"} ELSE {})]
        params(range, a) ==
            SetFieldIf(SetFieldIf(base(range, a), range # JsNull, "dateRange", range),
                       a[1] # 0, "amountRange", amountRange(a))
    IN params(dateRange(DatePatternMatch(q)), AmountPatternMatch(q))

-----------------------------------------------------------------------------
(* Stand-alone interpreter: QueryParser (query-parser.ts).  Its              *)
(* extractEntities is left out: analyzeIntent is modelled without the       *)
(* namedEntities of its result.                                             *)

CatchAllMaxAmount == 999999999

\* DATE_PATTERNS.relative in the order of its keys, as the first key the text
\* includes; "" if it includes none
RelativeKeys ==
    << <<"today">>, <<"yesterday">>, <<"this", "week">>, <<"last", "week">>,
       <<"this", "month">>, <<"last", "month">>, <<"this", "year">> >>
RelativeDateRange(key, today) ==
    CASE key = 1 -> [start |-> today, end |-> today]
      [] key = 2 -> [start |-> Calendar[today].yesterday,
                     end |-> Calendar[today].yesterday]
      [] key = 3 -> [start |-> Calendar[today].weekStart, end |-> today]
      [] key = 4 -> [start |-> Calendar[today].lastWeekStart,
                     end |-> Calendar[today].lastWeekEnd]
      [] key = 5 -> [start |-> Calendar[today].monthStart, end |-> today]
      [] key = 6 -> [start |-> Calendar[today].lastMonthStart,
                     end |-> Calendar[today].lastMonthEnd]
      [] key = 7 -> [start |-> Calendar[today].yearStart, end |-> today]

\* DATE_PATTERNS.months, and new Date(year, i, 1) .. new Date(year, i + 1, 0)
\* for the one month of the vocabulary
Months ==
    <<"january", "february", "march", "april", "may", "june",
      "july", "august", "september", "october", "november", "december">>
MonthRange ==
    (<<3, 2019>> :> [start |-> "2019-03-01", end |-> "2019-03-31"])
    @@ (<<3, 2025>> :> [start |-> "2025-03-01", end |-> "2025-03-31"])
    @@ (<<3, 2026>> :> [start |-> "2026-03-01", end |-> "2026-03-31"])

\* query.match(/\b(20\d{2})\b/): the year of the first ISO date of the text,
\* 0 if there is none (no other word of the vocabulary is 20dd)
YearIn(q) ==
    LET at == {i \in 1..Len(q) : IsIsoDate(q[i])}
    IN IF at = {} THEN 0 ELSE IsoParts[q[Min(at)]][1]

\* /(\d{4}-\d{2}-\d{2})(?:\s*(?:to|through|-|until)\s*(\d{4}-\d{2}-\d{2}))?/
\* at the first ISO date of the text
IsoDateRange_startOnly(q) ==
    LET at == {i \in 1..Len(q) : IsIsoDate(q[i])}
    IN IF at = {} THEN JsNull ELSE [start |-> q[Min(at)], end |-> q[Min(at)]]
IsoDateRange(q) ==
    LET at == {i \in 1..Len(q) : IsIsoDate(q[i])}
        Range(i) ==
            IF /\ i + 2 <= Len(q)
               /\ q[i + 1] \in {"to", "through", "-", "until"}
               /\ IsIsoDate(q[i + 2])
            THEN [start |-> q[i], end |-> q[i + 2]]
            ELSE [start |-> q[i], end |-> q[i]]
    IN IF at = {} THEN JsNull ELSE Range(Min(at))

\* QueryParser.parseDateRange(query); JsNull stands for undefined
parseDateRange(q, today) ==
    LET keys == {k \in 1..Len(RelativeKeys) : IncludesPhrase(q, RelativeKeys[k])}
        months == {i \in 1..Len(Months) : Includes(q, Months[i])}
    IN IF keys # {} THEN RelativeDateRange(Min(keys), today)
       ELSE IF months # {}
       THEN MonthRange[<<Min(months),
                         IF YearIn(q) # 0 THEN YearIn(q) ELSE Calendar[today].year>>]
       ELSE IsoDateRange(q)

\* ([\d,]+(?:\.\d{2})?)\s*(?:to|and|-)\s*$?([\d,]+(?:\.\d{2})?) after the
\* keyword at word i - 1: number, separator, number, or year-month of a date
AmountPairAfter(q, i) ==
    /\ i <= Len(q)
    /\ \/ IsIsoDate(q[i])
       \/ /\ i + 2 <= Len(q)
          /\ IsDigits(q[i])
          /\ Lower(q[i + 1]) \in {"to", "and", "-"}
          /\ StartsWithDigits(q[i + 2])
\* a number right after one of the keywords (`greater than` is two words)
AmountAfter(q, single, double) ==
    {i \in 2..Len(q) :
        /\ StartsWithDigits(q[i])
        /\ \/ Lower(q[i - 1]) \in single
           \/ i >= 3 /\ <<Lower(q[i - 2]), Lower(q[i - 1])>> \in double}

\* QueryParser.parseAmountRange(query); JsNull stands for undefined
parseAmountRange(q) ==
    LET between == {i \in 2..Len(q) : /\ Lower(q[i - 1]) \in {"between", "from"}
                                      /\ AmountPairAfter(q, i)}
        over == AmountAfter(q, {"over", "above"},
                            {<<"greater", "than">>, <<"more", "than">>})
        under == AmountAfter(q, {"under", "below"}, {<<"less", "than">>})
        exactly == AmountAfter(q, {"exactly", "equal", "equals"}, {})
    IN IF between # {} THEN AmountPair(q, Min(between))
       ELSE IF over # {}
       THEN [min |-> LeadingNumber(q[Min(over)]), max |-> CatchAllMaxAmount]
       ELSE IF under # {}
       THEN [min |-> 0, max |-> LeadingNumber(q[Min(under)])]
       ELSE IF exactly # {}
       THEN [min |-> LeadingNumber(q[Min(exactly)]),
             max |-> LeadingNumber(q[Min(exactly)])]
       ELSE JsNull

\* words that are cell coordinates, /[a-z]\d+:[a-z]\d+/i, with the number they
\* end in; they occur in the texts given to QueryParser alone
CellRanges == ("A1:B5" :> 5)
HasCellRange(q) == \E i \in 1..Len(q) : q[i] \in DOMAIN CellRanges

\* \d+ at the end of a word: the whole of a number, the day of a date, the
\* row of the last cell
EndsWithDigits(w) == StartsWithDigits(w) \/ w \in DOMAIN CellRanges
TrailingNumber(w) ==
    IF IsIsoDate(w) THEN IsoParts[w][3]
    ELSE IF w \in DOMAIN CellRanges THEN CellRanges[w]
    ELSE NumberOf[w]

\* QueryParser.extractLimit(query); 0 stands for undefined (the vocabulary
\* has no number 0)
extractLimit(q) ==
    LET after == AmountAfter(q, {"first", "top", "show"}, {<<"limit", "to">>})
        before == {i \in 1..(Len(q) - 1) :
                      /\ EndsWithDigits(q[i])
                      /\ Lower(q[i + 1]) \in {"row", "rows", "record", "records",
                                               "result", "results", "item", "items"}}
    IN IF after # {} THEN LeadingNumber(q[Min(after)])
       ELSE IF before # {} THEN TrailingNumber(q[Min(before)])
       ELSE 0

\* QueryParser.analyzeIntent(query): confidence in hundredths; the entities
\* that are undefined are listed in `undef`
analyzeIntent(q, today) ==
    LET sheetAction ==
            IF Includes(q, "info") \/ Includes(q, "detail")
            THEN [action |-> "get_sheet_info", confidence |-> 90]
            ELSE IF Includes(q, "range") \/ HasCellRange(q)
            THEN [action |-> "get_range", confidence |-> 85]
            ELSE [action |-> "get_rows", confidence |-> 80]
        chosen ==
            IF Includes(q, "invoice")
            THEN [action |-> "search_invoices", confidence |-> 90]
            ELSE IF Includes(q, "sheet") THEN sheetAction
            ELSE [action |-> "unknown", confidence |-> 0]
        entities(dateRange, amountRange, limit) ==
            SetFieldIf(SetFieldIf(SetFieldIf(
                [undef |-> (IF dateRange = JsNull THEN {"dateRange"} ELSE {})
                           \cup (IF amountRange = JsNull THEN {"amountRange"} ELSE {})
                           \cup (IF limit = 0 THEN {"limit"} ELSE {})],
                dateRange # JsNull, "dateRange", dateRange),
                amountRange # JsNull, "amountRange", amountRange),
                limit # 0, "limit", limit)
    IN [action |-> chosen.action,
        entities |-> entities(parseDateRange(q, today), parseAmountRange(q),
                              extractLimit(q)),
        confidence |-> chosen.confidence,
        originalQuery |-> q]

-----------------------------------------------------------------------------
(* Invoice adapter: QuickBooksService *)

NoTokens ==
    [accessToken |-> Undefined, refreshToken |-> Undefined, companyId |-> Undefined]

\* what the caller of setTokens passes
TokenSets ==
    { [accessToken |-> "at-0", refreshToken |-> "rt-0", companyId |-> "realm-1"],
      [accessToken |-> "at-0", refreshToken |-> "", companyId |-> "realm-1"],
      [accessToken |-> "at-0", refreshToken |-> "rt-0", companyId |-> ""] }

\* how the upstream answers one makeApiCall: the status of the first request
\* (0: fetch rejected), the token endpoint on a refresh, the status of the
\* retried request, and the invoices of a 200
UpstreamInvoices ==
    << [Id |-> "7", DocNumber |-> "1001", TxnDate |-> "2025-01-15", TotalAmt |-> 120] >>
NoScript == [first |-> 0, refresh |-> "failed", second |-> 0, invoices |-> <<>>]
QbScripts ==
    { [NoScript EXCEPT !.first = 200, !.invoices = inv] : inv \in {<<>>, UpstreamInvoices} }
    \cup { [NoScript EXCEPT !.first = st] : st \in {0, 500, 401} }
    \cup { [first |-> 401, refresh |-> "ok", second |-> st, invoices |-> <<>>] :
              st \in {0, 200, 401, 500} }
    \cup { [first |-> 401, refresh |-> "rotated", second |-> 200,
            invoices |-> UpstreamInvoices] }

\* the fetch of makeApiCall after the credential check
ApiResponse(status, invoices) ==
    IF status = 0 THEN Threw(<<"fetch failed">>)
    ELSE IF status # 200 THEN Threw(<<"QuickBooks API error: ", "status", " - ">>)
    ELSE Returned([QueryResponse |-> [Invoice |-> invoices]])

\* refreshAccessToken(): the tokens afterwards
RefreshedTokens(tok, refresh) ==
    [tok EXCEPT !.accessToken = "at-1",
                !.refreshToken = IF refresh = "rotated" THEN "rt-1" ELSE @]

\* makeApiCall(endpoint): [result, tokens, requests, refreshes]
makeApiCall_noCredentialCheck(tok, script) ==
    [result |-> ApiResponse(script.first, script.invoices),
     tokens |-> tok, requests |-> 1, refreshes |-> 0]
makeApiCall_awaitedRetry(tok, script) ==
    IF ~Truthy(tok.accessToken) \/ ~Truthy(tok.companyId)
    THEN [result |-> Threw(<<"QuickBooks not authenticated. Please complete OAuth flow first.">>),
          tokens |-> tok, requests |-> 0, refreshes |-> 0]
    ELSE IF script.first = 401 /\ Truthy(tok.refreshToken)
    THEN IF script.refresh = "failed" \/ script.second # 200
         THEN [result |-> Threw(<<"Authentication failed. Please re-authorize with QuickBooks.">>),
               tokens |-> IF script.refresh = "failed" THEN tok
                          ELSE RefreshedTokens(tok, script.refresh),
               requests |-> IF script.refresh = "failed" THEN 1 ELSE 2,
               refreshes |-> 1]
         ELSE [result |-> ApiResponse(script.second, script.invoices),
               tokens |-> RefreshedTokens(tok, script.refresh),
               requests |-> 2, refreshes |-> 1]
    ELSE [result |-> ApiResponse(script.first, script.invoices),
          tokens |-> tok, requests |-> 1, refreshes |-> 0]
makeApiCall(tok, script) ==
    IF ~Truthy(tok.accessToken) \/ ~Truthy(tok.companyId)
    THEN [result |-> Threw(<<"QuickBooks not authenticated. Please complete OAuth flow first.">>),
          tokens |-> tok, requests |-> 0, refreshes |-> 0]
    ELSE IF script.first = 401 /\ Truthy(tok.refreshToken)
    THEN IF script.refresh = "failed"
         THEN [result |-> Threw(<<"Authentication failed. Please re-authorize with QuickBooks.">>),
               tokens |-> tok, requests |-> 1, refreshes |-> 1]
         ELSE [result |-> ApiResponse(script.second, script.invoices),
               tokens |-> RefreshedTokens(tok, script.refresh),
               requests |-> 2, refreshes |-> 1]
    ELSE [result |-> ApiResponse(script.first, script.invoices),
          tokens |-> tok, requests |-> 1, refreshes |-> 0]

\* the transformed invoice
TransformInvoice(invoice) ==
    [id |-> invoice.Id, docNumber |-> invoice.DocNumber, txnDate |-> invoice.TxnDate,
     totalAmt |-> invoice.TotalAmt,
     balance |-> 0,
     customerRef |-> [value |-> "", name |-> "Unknown Customer"],
     line |-> <<>>]

\* searchInvoices(params): [result, tokens, requests, refreshes]
searchInvoices(params, tok, script, t) ==
    LET api == makeApiCall(tok, script)
        invoices == api.result.value.QueryResponse.Invoice
        transformed == [i \in 1..Len(invoices) |-> TransformInvoice(invoices[i])]
        queryInfo == [k \in (DOMAIN params \ {"action"}) \cup {"executedAt"} |->
                         IF k = "executedAt" THEN t ELSE params[k]]
    IN [api EXCEPT !.result =
            IF api.result.threw
            THEN Threw(<<"Failed to search QuickBooks invoices: ">> \o api.result.message)
            ELSE Returned([companyId |-> api.tokens.companyId,
                           invoices |-> transformed,
                           totalCount |-> Len(transformed),
                           queryInfo |-> queryInfo])]

StringifyInvoiceData(data) ==
    JsonText([data EXCEPT !.queryInfo = [@ EXCEPT !.undef = {}]])

\* formatForVerbalResponse(data, originalQuery): the parts of the sentence
InvoiceVerbal_dateOnly(data) ==
    LET qi == data.queryInfo
        base == [text |-> IF Len(data.invoices) = 0 THEN "none" ELSE "found",
                 totalCount |-> data.totalCount,
                 entries |-> data.invoices]
    IN IF Has(qi, "dateRange") THEN SetField(base, "dateRange", qi.dateRange) ELSE base
InvoiceVerbal(data) ==
    LET qi == data.queryInfo
        base == [text |-> IF Len(data.invoices) = 0 THEN "none" ELSE "found",
                 totalCount |-> data.totalCount,
                 entries |-> data.invoices]
        withDate == IF Has(qi, "dateRange")
                    THEN SetField(base, "dateRange", qi.dateRange) ELSE base
    IN IF Has(qi, "amountRange")
       THEN SetField(withDate, "amountRange", qi.amountRange) ELSE withDate

\* generateQuickBooksContext(invoiceData, originalQuery)
InvoiceContext(data, query) ==
    [query |-> query,
     text |-> IF Len(data.invoices) = 0 THEN "none" ELSE "found",
     totalCount |-> data.totalCount]

-----------------------------------------------------------------------------
(* Dispatcher: MCPServer.  Two dispatchers exist: the one whose tools are   *)
(* all built in, and the one that looks among its plugins first; the       *)
(* query_google_sheets plugin exists without and with a zod ArgsSchema.    *)

MethodNotFound == -32601
InvalidParams == -32602
InternalError == -32603

Builds ==
    { [dispatcher |-> "builtin", sheetsPlugin |-> "none", zod |-> 0],
      [dispatcher |-> "plugins", sheetsPlugin |-> "plain", zod |-> 0],
      [dispatcher |-> "plugins", sheetsPlugin |-> "schema", zod |-> 3],
      [dispatcher |-> "plugins", sheetsPlugin |-> "schema", zod |-> 4] }

\* (id && secret) || (!id && !secret)
QuickBooksConfigured(clientId, clientSecret) ==
    \/ Truthy(clientId) /\ Truthy(clientSecret)
    \/ ~Truthy(clientId) /\ ~Truthy(clientSecret)

\* loadPlugins(): the names of the plugins' metas; the dispatcher without
\* plugins has none
loadPlugins(build) ==
    IF build.dispatcher = "plugins" THEN <<"query_google_sheets">> ELSE <<>>

\* initializeTools(): the descriptors, by name, in the order of the array:
\* the plugin metas or the built-in query_google_sheets, get_sheet_info, and
\* the invoice tool if the invoice service exists
initializeTools_legacyKept(build, quickBooks) ==
    loadPlugins(build)
    \o <<"query_google_sheets", "get_sheet_info">>
    \o (IF quickBooks THEN <<"search_quickbooks_invoices">> ELSE <<>>)
initializeTools(build, quickBooks) ==
    (IF build.dispatcher = "plugins"
     THEN loadPlugins(build) ELSE <<"query_google_sheets">>)
    \o <<"get_sheet_info">>
    \o (IF quickBooks THEN <<"search_quickbooks_invoices">> ELSE <<>>)

\* new MCPServer(key, defaultSpreadsheetId, quickBooksClientId, quickBooksClientSecret)
NewServer(build, defaultSpreadsheetId, clientId, clientSecret) ==
    [dispatcher |-> build.dispatcher,
     sheetsPlugin |-> build.sheetsPlugin,
     zod |-> build.zod,
     defaultSpreadsheetId |-> defaultSpreadsheetId,
     quickBooks |-> QuickBooksConfigured(clientId, clientSecret),
     tools |-> initializeTools(build, QuickBooksConfigured(clientId, clientSecret))]

\* the names of this.tools
ToolNames(srv) == {srv.tools[i] : i \in 1..Len(srv.tools)}

createErrorResponse_noId(code, message, id) ==
    [error |-> [code |-> code, message |-> message], id |-> Undefined]
createErrorResponse_noMessage(code, message, id) ==
    [error |-> [code |-> code], id |-> id]
createErrorResponse(code, message, id) ==
    [error |-> [code |-> code, message |-> message], id |-> id]

\* return { result, id: requestId }
ResultResponse(result, id) == [result |-> result, id |-> id]

\* `args` when request.params has no `arguments`, or there are no params
UndefinedArgs == [undefined |-> TRUE]
ParamsOf(req) == IF Has(req, "params") THEN req.params ELSE EmptyObject
NameOf(req) == IF Has(ParamsOf(req), "name") THEN ParamsOf(req).name ELSE Undefined
ArgsOf(req) ==
    IF Has(ParamsOf(req), "arguments") THEN ParamsOf(req).arguments ELSE UndefinedArgs

IsUndefinedArgs(args) == Has(args, "undefined")

\* const { k } = args for a string-valued k
ArgOr(args, k) == IF Has(args, k) THEN args[k] ELSE Undefined
\* !query
QueryFalsy(args) == ~Has(args, "query") \/ args.query = <<>>
\* const { responseFormat = 'both' } = args
FormatOrBoth(args) ==
    IF Has(args, "responseFormat") THEN args.responseFormat ELSE "both"

DestructureError(k) ==
    <<"Cannot destructure property '", k, "' of 'args' as it is undefined.">>

\* the argument object of getSheetData built by the handlers; a key whose
\* value is undefined is left out, as JSON.stringify leaves it out of the key
SheetParams(parsed) ==
    [k \in DOMAIN parsed \cap {"spreadsheetId", "sheetName", "range", "limit", "offset"} |->
        parsed[k]]

\* what a handler has decided when it first awaits or returns: the envelope,
\* or the adapter call with what the handler needs afterwards
Respond(envelope) == [kind |-> "respond", response |-> envelope]
CallAdapter(fn, params, via, query, format) ==
    [kind |-> "call", fn |-> fn, params |-> params, via |-> via,
     query |-> query, format |-> format]

\* handleSheetsQuery(args, requestId) up to `await getSheetData`
handleSheetsQuery(srv, args, id) ==
    IF IsUndefinedArgs(args)
    THEN Respond(createErrorResponse(InternalError,
             <<"Failed to query sheets: ">> \o DestructureError("query"), id))
    ELSE IF QueryFalsy(args)
    THEN Respond(createErrorResponse(InvalidParams, <<"Query parameter is required">>, id))
    ELSE LET try(parsed) ==
                 IF parsed.threw
                 THEN Respond(createErrorResponse(InternalError,
                          <<"Failed to query sheets: ">> \o parsed.message, id))
                 ELSE CallAdapter("getSheetData", SheetParams(parsed.value),
                                  "handleSheetsQuery", args.query, FormatOrBoth(args))
         IN try(parseQuery(args.query, ArgOr(args, "spreadsheetId"),
                           srv.defaultSpreadsheetId))

\* handleSheetInfo(args, requestId) up to `await getSheetInfo`
handleSheetInfo(args, id) ==
    IF IsUndefinedArgs(args)
    THEN Respond(createErrorResponse(InternalError,
             <<"Failed to get sheet info: ">> \o DestructureError("spreadsheetId"), id))
    ELSE IF ~Truthy(ArgOr(args, "spreadsheetId"))
    THEN Respond(createErrorResponse(InvalidParams, <<"Spreadsheet ID is required">>, id))
    ELSE CallAdapter("getSheetInfo", [spreadsheetId |-> args.spreadsheetId],
                     "handleSheetInfo", <<>>, "both")

\* handleQuickBooksQuery(args, requestId) up to `await searchInvoices`
handleQuickBooksQuery_noConfigCheck(srv, args, id) ==
    IF IsUndefinedArgs(args)
    THEN Respond(createErrorResponse(InternalError,
             <<"Failed to query QuickBooks: ">> \o DestructureError("query"), id))
    ELSE IF QueryFalsy(args)
    THEN Respond(createErrorResponse(InvalidParams, <<"Query parameter is required">>, id))
    ELSE CallAdapter("searchInvoices", qbParseQuery(args.query, TodayIso),
                     "handleQuickBooksQuery", args.query, FormatOrBoth(args))
handleQuickBooksQuery(srv, args, id) ==
    IF ~srv.quickBooks
    THEN Respond(createErrorResponse(MethodNotFound,
             <<"QuickBooks service is not configured. Please provide QuickBooks credentials.">>,
             id))
    ELSE IF IsUndefinedArgs(args)
    THEN Respond(createErrorResponse(InternalError,
             <<"Failed to query QuickBooks: ">> \o DestructureError("query"), id))
    ELSE IF QueryFalsy(args)
    THEN Respond(createErrorResponse(InvalidParams, <<"Query parameter is required">>, id))
    ELSE CallAdapter("searchInvoices", qbParseQuery(args.query, TodayIso),
                     "handleQuickBooksQuery", args.query, FormatOrBoth(args))

\* ArgsSchema.parse(args) of the query_google_sheets plugin: query a string
\* of at least one character, spreadsheetId an optional string, and
\* z.enum([...]).default('both').optional() for responseFormat, which for a
\* missing responseFormat gives undefined under zod 3 and 'both' under zod 4
ResponseFormats == {"verbal", "structured", "both"}
ArgsSchemaParse(args, zod) ==
    IF IsUndefinedArgs(args)
    THEN Threw(<<"ZodError: ", "expected object">>)
    ELSE IF QueryFalsy(args)
    THEN Threw(<<"ZodError: ", "query">>)
    ELSE IF Has(args, "responseFormat") /\ args.responseFormat \notin ResponseFormats
    THEN Threw(<<"ZodError: ", "responseFormat">>)
    ELSE Returned([query |-> args.query,
                   spreadsheetId |-> ArgOr(args, "spreadsheetId"),
                   responseFormat |->
                       IF Has(args, "responseFormat") THEN args.responseFormat
                       ELSE IF zod = 3 THEN Undefined ELSE "both"])

\* plugin.run(args, {services}) of tools/googleSheets.ts without ArgsSchema,
\* up to `await getSheetData`: what it throws, or the adapter call
PlainSheetsPluginRun(srv, args) ==
    IF IsUndefinedArgs(args) THEN Threw(DestructureError("query"))
    ELSE IF QueryFalsy(args) THEN Threw(<<"Query parameter is required">>)
    ELSE LET run(parsed) ==
                 IF parsed.threw THEN parsed
                 ELSE Returned(CallAdapter("getSheetData", SheetParams(parsed.value),
                                           "plugin", args.query, FormatOrBoth(args)))
         IN run(parseQuery(args.query, ArgOr(args, "spreadsheetId"),
                           srv.defaultSpreadsheetId))

\* plugin.run(args, {services}) of tools/googleSheets.ts with ArgsSchema
SchemaSheetsPluginRun(srv, args) ==
    LET parsedArgs == ArgsSchemaParse(args, srv.zod)
        run(parsed) ==
            IF parsed.threw THEN parsed
            ELSE Returned(CallAdapter("getSheetData", SheetParams(parsed.value),
                                      "plugin", parsedArgs.value.query,
                                      parsedArgs.value.responseFormat))
    IN IF parsedArgs.threw THEN parsedArgs
       ELSE run(parseQuery(parsedArgs.value.query,
                           parsedArgs.value.spreadsheetId,
                           srv.defaultSpreadsheetId))

\* the `try { await plugin.run(...) } catch` of handleToolCall, up to the await
RunPlugin(srv, args, id) ==
    LET try(ran) ==
            IF ran.threw
            THEN Respond(createErrorResponse(InternalError,
                     <<"Plugin error: ">> \o ran.message, id))
            ELSE ran.value
    IN try(IF srv.sheetsPlugin = "schema"
           THEN SchemaSheetsPluginRun(srv, args)
           ELSE PlainSheetsPluginRun(srv, args))

\* handleToolCall(request)
handleToolCall(srv, req) ==
    LET name == NameOf(req)
        args == ArgsOf(req)
        id == req.id
    IN IF srv.dispatcher = "plugins" /\ name = "query_google_sheets"
       THEN RunPlugin(srv, args, id)
       ELSE IF srv.dispatcher = "builtin" /\ name = "query_google_sheets"
       THEN handleSheetsQuery(srv, args, id)
       ELSE IF name = "get_sheet_info" THEN handleSheetInfo(args, id)
       ELSE IF name = "search_quickbooks_invoices"
       THEN handleQuickBooksQuery(srv, args, id)
       ELSE Respond(createErrorResponse(InvalidParams, <<"Unknown tool: ", name>>, id))

ServerInfo ==
    [protocolVersion |-> "2024-11-05",
     serverInfo |-> [name |-> "Multi-Source MCP Server", version |-> "1.1.0"]]

\* handleRequest(request) up to its first await
handleRequest(srv, req) ==
    IF req.method = "initialize" THEN Respond([result |-> ServerInfo])
    ELSE IF req.method = "tools/list"
    THEN Respond([result |-> [tools |-> srv.tools]])
    ELSE IF req.method = "tools/call" THEN handleToolCall(srv, req)
    ELSE Respond(createErrorResponse(MethodNotFound,
             <<"Method '", req.method, "' not found">>, req.id))

\* the result object the data-returning tools build from responseFormat
FormatResult_dataAlways(format, verbal, data, context, withContext) ==
    LET v == IF format \in {"verbal", "both"}
             THEN SetField(EmptyObject, "verbalResponse", verbal) ELSE EmptyObject
    IN SetField(v, "data", data)
FormatResult(format, verbal, data, context, withContext) ==
    LET v == IF format \in {"verbal", "both"}
             THEN SetField(EmptyObject, "verbalResponse", verbal) ELSE EmptyObject
        d == IF format \in {"structured", "both"} THEN SetField(v, "data", data) ELSE v
    IN IF withContext /\ format = "both"
       THEN SetField(d, "conversationalContext", context) ELSE d

\* the verbalSummary of get_sheet_info
InfoSummary(info) ==
    [title |-> info.title, totalSheets |-> info.totalSheets,
     names |-> [i \in 1..Len(info.sheets) |-> info.sheets[i].name]]

\* the handler after its await: `outcome` is what the adapter call returned
\* or threw
AfterAdapter(plan, outcome, id) ==
    IF outcome.threw
    THEN createErrorResponse(InternalError,
             (CASE plan.via = "handleSheetsQuery" -> <<"Failed to query sheets: ">>
                [] plan.via = "handleSheetInfo" -> <<"Failed to get sheet info: ">>
                [] plan.via = "handleQuickBooksQuery" -> <<"Failed to query QuickBooks: ">>
                [] OTHER -> <<"Plugin error: ">>) \o outcome.message,
             id)
    ELSE CASE plan.via = "handleSheetsQuery" ->
                ResultResponse(FormatResult(plan.format, SheetsVerbal(outcome.value),
                                   outcome.value,
                                   SheetsContext(outcome.value, plan.query), TRUE), id)
           [] plan.via = "plugin" ->
                ResultResponse(FormatResult(plan.format, SheetsVerbal(outcome.value),
                                   outcome.value,
                                   SheetsContext(outcome.value, plan.query), FALSE), id)
           [] plan.via = "handleSheetInfo" ->
                ResultResponse([spreadsheetInfo |-> outcome.value,
                                verbalSummary |-> InfoSummary(outcome.value)], id)
           [] OTHER ->
                ResultResponse(FormatResult(plan.format, InvoiceVerbal(outcome.value),
                                   outcome.value,
                                   InvoiceContext(outcome.value, plan.query), TRUE), id)

-----------------------------------------------------------------------------
(* The server at work: one server, requests one after the other.           *)

RequestIds == {Undefined, "req-1"}

SheetQueries == {<<>>, <<"First", "3", "rows">>, <<"rows", "spreadsheet", "id", "abc123">>}
InvoiceQueries == {<<>>, <<"invoices", "over", "100">>, <<"show", "5", "invoices">>}
SpreadsheetIdArgs == {Undefined, "", "sheet-override"}
FormatArgs == ResponseFormats \cup {"xml"}

\* an arguments object without query; Undefined for spreadsheetId or
\* responseFormat leaves the key out
Arguments(spreadsheetId, responseFormat) ==
    LET i == IF spreadsheetId = Undefined THEN EmptyObject
             ELSE SetField(EmptyObject, "spreadsheetId", spreadsheetId)
    IN IF responseFormat = Undefined THEN i
       ELSE SetField(i, "responseFormat", responseFormat)
QueryArguments(query, spreadsheetId, responseFormat) ==
    SetField(Arguments(spreadsheetId, responseFormat), "query", query)

SheetsArguments ==
    { QueryArguments(q, i, Undefined) : q \in SheetQueries, i \in SpreadsheetIdArgs }
    \cup { Arguments(i, Undefined) : i \in SpreadsheetIdArgs }
    \cup { QueryArguments(<<"First", "3", "rows">>, "sheet-override", f) : f \in FormatArgs }
InfoArguments ==
    { Arguments(i, Undefined) : i \in SpreadsheetIdArgs }
InvoiceArguments ==
    { QueryArguments(q, Undefined, Undefined) : q \in InvoiceQueries }
    \cup { Arguments(Undefined, Undefined) }
    \cup { QueryArguments(<<"invoices", "over", "100">>, Undefined, f) : f \in FormatArgs }

ToolCallParams ==
    { [name |-> "query_google_sheets", arguments |-> a] : a \in SheetsArguments }
    \cup { [name |-> "get_sheet_info", arguments |-> a] : a \in InfoArguments }
    \cup { [name |-> "search_quickbooks_invoices", arguments |-> a] : a \in InvoiceArguments }
    \cup { [name |-> n] : n \in {"query_google_sheets", "get_sheet_info",
                                 "search_quickbooks_invoices", "no_such_tool"} }
    \cup { [name |-> "no_such_tool",
            arguments |-> QueryArguments(<<"First", "3", "rows">>, "sheet-override", Undefined)] }

\* every request with an id, and one of each way through the dispatcher
\* without
Requests ==
    { [method |-> "tools/call", id |-> "req-1", params |-> p] : p \in ToolCallParams }
    \cup { [method |-> "tools/call", id |-> Undefined,
            params |-> [name |-> n,
                        arguments |-> QueryArguments(<<"First", "3", "rows">>,
                                                     "sheet-override", Undefined)]] :
              n \in {"query_google_sheets", "get_sheet_info",
                     "search_quickbooks_invoices", "no_such_tool"} }
    \cup { [method |-> m, id |-> i] :
          m \in {"initialize", "tools/list", "tools/call", "resources/list"},
          i \in RequestIds }

\* what the request has done so far: the adapter method was invoked, the
\* cache answered, upstream requests sent, token refreshes, a cache store;
\* and the two cache backends as they were when the request came in
NoFx ==
    [adapter |-> FALSE, hit |-> FALSE, fetches |-> 0, refreshes |-> 0, stored |-> FALSE,
     before |-> <<>>]
Incoming == [NoFx EXCEPT !.before = <<memoryCache, kvStore>>]

Init ==
    /\ now = 0
    /\ memoryCache = [k \in {} |-> JsNull]
    /\ kvStore = [k \in {} |-> JsNull]
    /\ invocation = 0
    /\ stored = [k \in {} |-> JsNull]
    /\ pc = [c \in Callers |-> "idle"]
    /\ call = [c \in Callers |-> NoCall]
    /\ resp = [c \in Callers |-> NoResp]
    /\ \E build \in Builds, w \in Wrappers,
          defaultSpreadsheetId \in {Undefined, "sheet-default"},
          clientId \in {Undefined, "qb-client"}, clientSecret \in {Undefined, "qb-secret"} :
          \* the dispatcher without plugins calls withCache(fn) of the
          \* in-process wrapper; the one with plugins calls
          \* withCache(fn, 300, cacheKV), with or without a namespace bound
          /\ build.dispatcher = "builtin" => w.impl = "memoryOnly"
          /\ build.dispatcher = "plugins" => w.impl = "kvCapable"
          /\ wrapper = w
          /\ server = NewServer(build, defaultSpreadsheetId, clientId, clientSecret)
    /\ tokens = NoTokens
    /\ request = JsNull
    /\ response = JsNull
    /\ stage = "idle"
    /\ served = 0
    /\ fx = NoFx
    /\ applied = NotApplied

Plan == handleRequest(server, request)

\* the cache key of the wrapped adapter method: fn is a bound function
AdapterKey(plan) ==
    IF plan.fn = "getSheetData"
    THEN CacheKey("bound getSheetData", JsonText(<<plan.params>>))
    ELSE CacheKey("bound searchInvoices",
                  JsonText(<<[plan.params EXCEPT !.undef = {}]>>))

\* handleRequest(req) runs up to the envelope or up to the adapter call
Receive(req) ==
    /\ stage = "idle"
    /\ served < MaxRequests
    /\ request' = req
    /\ \E plan \in {handleRequest(server, req)} :
          IF plan.kind = "respond"
          THEN /\ response' = plan.response
               /\ stage' = "responded"
               /\ fx' = Incoming
          ELSE IF plan.fn = "getSheetInfo"
          THEN /\ response' = JsNull
               /\ stage' = "awaiting"
               /\ fx' = [Incoming EXCEPT !.adapter = TRUE]
          ELSE \E look \in {CacheLookup(AdapterKey(plan), now)} :
                  IF look.hit
                  THEN /\ response' = AfterAdapter(plan, Returned(look.value), req.id)
                       /\ stage' = "responded"
                       /\ fx' = [Incoming EXCEPT !.hit = TRUE]
                  ELSE /\ response' = JsNull
                       /\ stage' = "awaiting"
                       /\ fx' = [Incoming EXCEPT !.adapter = TRUE]
    /\ UNCHANGED <<now, memoryCache, kvStore, wrapper, harnessVars, applied, server, tokens, served>>

\* getSheetData settles
SettleSheetData(outcome) ==
    /\ stage = "awaiting"
    /\ \E plan \in {Plan} :
          /\ plan.fn = "getSheetData"
          /\ \E out \in {getSheetData(plan.params, outcome, now)},
                key \in {AdapterKey(plan)} :
                /\ response' = AfterAdapter(plan, out, request.id)
                /\ IF out.threw
                   THEN UNCHANGED <<memoryCache, kvStore>>
                   ELSE /\ memoryCache' = MemoryAfterStore(key, out.value, now, now)
                        /\ kvStore' = KvAfterStore(key, StringifySheetData(out.value), now)
                /\ fx' = [fx EXCEPT !.fetches = SheetFetches(outcome),
                                    !.stored = ~out.threw]
    /\ stage' = "responded"
    /\ UNCHANGED <<now, wrapper, harnessVars, applied, server, tokens, request, served>>

\* getSheetInfo settles
SettleSheetInfo(outcome) ==
    /\ stage = "awaiting"
    /\ \E plan \in {Plan} :
          /\ plan.fn = "getSheetInfo"
          /\ response' = AfterAdapter(plan,
                             getSheetInfo(plan.params.spreadsheetId, outcome),
                             request.id)
    /\ fx' = [fx EXCEPT !.fetches = SheetFetches(outcome)]
    /\ stage' = "responded"
    /\ UNCHANGED <<now, memoryCache, kvStore, wrapper, harnessVars, applied, server, tokens,
                   request, served>>

\* searchInvoices settles
SettleInvoices(script) ==
    /\ stage = "awaiting"
    /\ \E plan \in {Plan} :
          /\ plan.fn = "searchInvoices"
          /\ \E out \in {searchInvoices(plan.params, tokens, script, now)},
                key \in {AdapterKey(plan)} :
                /\ response' = AfterAdapter(plan, out.result, request.id)
                /\ tokens' = out.tokens
                /\ IF out.result.threw
                   THEN UNCHANGED <<memoryCache, kvStore>>
                   ELSE /\ memoryCache' = MemoryAfterStore(key, out.result.value, now, now)
                        /\ kvStore' = KvAfterStore(key,
                                          StringifyInvoiceData(out.result.value), now)
                /\ fx' = [fx EXCEPT !.fetches = out.requests,
                                    !.refreshes = out.refreshes,
                                    !.stored = ~out.result.threw]
    /\ stage' = "responded"
    /\ UNCHANGED <<now, wrapper, harnessVars, applied, server, request, served>>

\* the caller takes the envelope
Deliver ==
    /\ stage = "responded"
    /\ stage' = "idle"
    /\ request' = JsNull
    /\ response' = JsNull
    /\ fx' = NoFx
    /\ served' = served + 1
    /\ UNCHANGED <<now, memoryCache, kvStore, wrapper, harnessVars, applied, server, tokens>>

\* quickBooks.setTokens(accessToken, refreshToken, companyId)
SetTokens(t) ==
    /\ stage = "idle"
    /\ served < MaxRequests
    /\ server.quickBooks
    /\ tokens # t
    /\ tokens' = t
    /\ UNCHANGED <<now, memoryCache, kvStore, wrapper, harnessVars, applied, server, request,
                   response, stage, served, fx>>

Next ==
    \/ \E req \in Requests : Receive(req)
    \/ \E outcome \in SheetOutcomes : SettleSheetData(outcome)
    \/ \E outcome \in InfoOutcomes : SettleSheetInfo(outcome)
    \/ \E script \in QbScripts : SettleInvoices(script)
    \/ Deliver
    \/ \E t \in TokenSets : SetTokens(t)

Spec == Init /\ [][Next]_vars

-----------------------------------------------------------------------------
(* The adapters and the interpreters called on their own, as any module    *)
(* that imports the services may call them.                                *)

ApplyInit ==
    /\ CacheInit
    /\ wrapper = [impl |-> "memoryOnly", kv |-> FALSE]

\* SheetQueryParams: spreadsheetId, and optionally sheetName, range, limit,
\* offset and requestedColumns
SheetNameParams == {Undefined, "", "Sales", "SALES", "Missing"}
RangeParams == {[sheet |-> "none", lastRow |-> 0],
                [sheet |-> "Sheet1", lastRow |-> 0],
                [sheet |-> "Sales", lastRow |-> 2]}
\* limit and requestedColumns are left out (<<>>), or given: a limit of 0,
\* columns of which none, or not all, match a header
LimitParams == {<<>>, <<0>>, <<1>>, <<2>>, <<5>>}
OffsetParams == {0, 1, 5}
ColumnParams == {<<>>, <<<<"Name">>>>, <<<<"Zip">>>>, <<<<"Zip", "amo">>>>}
SheetQueryParams ==
    {SetFieldIf(SetFieldIf(SetFieldIf(SetFieldIf(SetFieldIf(
         [spreadsheetId |-> "abc123"],
         sheetName # Undefined, "sheetName", sheetName),
         range.sheet # "none", "range", range),
         limit # <<>>, "limit", limit[1]),
         offset # 0, "offset", offset),
         columns # <<>>, "requestedColumns", columns[1]) :
       sheetName \in SheetNameParams, range \in RangeParams, limit \in LimitParams,
       offset \in OffsetParams, columns \in ColumnParams}

\* the texts the interpreters are called with: up to MaxPhrases phrases, one
\* after the other
Phrases ==
    { <<"today">>, <<"yesterday">>, <<"this", "week">>, <<"last", "month">>,
      <<"this", "year">>, <<"march">>,
      <<"2025-01-01", "to", "2025-01-31">>,
      <<"between", "2025-01-31", "and", "2025-01-01">>,
      <<"since", "2026-01-01">>, <<"before", "2019-12-31">>, <<"2025-01-31">>,
      <<"over", "1000000">>, <<"under", "100">>,
      <<"between", "100", "and", "5">>, <<"amount", "between", "100", "and", "5">>,
      <<"invoices">>, <<"sheet">>, <<"show", "5">>, <<"5", "rows">>,
      <<"info">>, <<"range">> }
RECURSIVE TextsOf(_)
TextsOf(n) ==
    IF n = 0 THEN {<<>>}
    ELSE TextsOf(n - 1) \cup {t \o p : t \in TextsOf(n - 1), p \in Phrases}
Texts == TextsOf(MaxPhrases)
\* the tabular interpreter gets the texts whose words are letters and digits
SheetTexts == {t \in Texts : \A i \in 1..Len(t) : ~IsIsoDate(t[i])}
\* QueryParser also gets texts with cell coordinates
IntentTexts ==
    Texts \cup {p \o <<"A1:B5">> \o r :
                   p \in {<<>>, <<"sheet">>, <<"invoices">>, <<"sheet", "info">>},
                   r \in {<<>>, <<"rows">>}}

\* one call in a behaviour: the functions are pure
\* sheets.parseQuery(query) of a service with a default spreadsheet
ApplySheetsParseQuery(q) ==
    /\ applied = NotApplied
    /\ applied' = [fn |-> "sheets.parseQuery", query |-> q,
                   out |-> parseQuery(q, Undefined, "sheet-default")]
    /\ UNCHANGED <<now, memoryCache, kvStore, wrapper, harnessVars, serverVars>>

\* quickBooks.parseQuery(query) on the day `today`
ApplyInvoiceParseQuery(q, today) ==
    /\ applied = NotApplied
    /\ applied' = [fn |-> "quickBooks.parseQuery", query |-> q, today |-> today,
                   out |-> qbParseQuery(q, today)]
    /\ UNCHANGED <<now, memoryCache, kvStore, wrapper, harnessVars, serverVars>>

\* QueryParser.analyzeIntent(query) on the day `today`
ApplyAnalyzeIntent(q, today) ==
    /\ applied = NotApplied
    /\ applied' = [fn |-> "QueryParser.analyzeIntent", query |-> q, today |-> today,
                   out |-> analyzeIntent(q, today)]
    /\ UNCHANGED <<now, memoryCache, kvStore, wrapper, harnessVars, serverVars>>

\* sheets.getSheetData(params)
ApplyGetSheetData(params, outcome) ==
    /\ applied = NotApplied
    /\ applied' = [fn |-> "getSheetData", params |-> params, outcome |-> outcome,
                   out |-> getSheetData(params, outcome, now)]
    /\ UNCHANGED <<now, memoryCache, kvStore, wrapper, harnessVars, serverVars>>

\* the datasets the formatters are called with: 0 .. MaxRecords records; a
\* SheetData with or without a limit, whose totalRows is the number of its
\* rows or more; a QuickBooksResponse with or without its two ranges
VerbalRows(n) == [i \in 1..n |-> [Name |-> "Alice", Amount |-> "10"]]
VerbalSheetData ==
    {[spreadsheetId |-> "abc123", sheetName |-> "Sheet1",
      range |-> [sheet |-> "Sheet1", lastRow |-> 0],
      headers |-> <<"Name", "Amount">>,
      rows |-> VerbalRows(n),
      totalRows |-> n + extra,
      queryInfo |-> SetFieldIf([executedAt |-> 0,
                                undef |-> {"offset"}
                                          \cup (IF limit = <<>> THEN {"limit"} ELSE {})],
                               limit # <<>>, "limit", limit[1])] :
       n \in 0..MaxRecords, extra \in {0, 1}, limit \in {<<>>, <<5>>}}
VerbalInvoices(n) ==
    [i \in 1..n |-> TransformInvoice(UpstreamInvoices[1])]
VerbalInvoiceData ==
    {[companyId |-> "realm-1",
      invoices |-> VerbalInvoices(n),
      totalCount |-> n,
      queryInfo |->
          SetFieldIf(SetFieldIf(
              [executedAt |-> 0, limit |-> DefaultInvoiceLimit,
               undef |-> (IF dated THEN {} ELSE {"dateRange"})
                         \cup (IF priced THEN {} ELSE {"amountRange"})],
              dated, "dateRange", [start |-> "2025-01-01", end |-> "2025-01-31"]),
              priced, "amountRange", [min |-> 100, max |-> SentinelMaxAmount])] :
       n \in 0..MaxRecords, dated \in BOOLEAN, priced \in BOOLEAN}

\* sheets.formatForVerbalResponse(data, originalQuery)
ApplySheetsVerbal(data) ==
    /\ applied = NotApplied
    /\ applied' = [fn |-> "sheets.formatForVerbalResponse", data |-> data,
                   out |-> SheetsVerbal(data)]
    /\ UNCHANGED <<now, memoryCache, kvStore, wrapper, harnessVars, serverVars>>

\* quickBooks.formatForVerbalResponse(data, originalQuery)
ApplyInvoiceVerbal(data) ==
    /\ applied = NotApplied
    /\ applied' = [fn |-> "quickBooks.formatForVerbalResponse", data |-> data,
                   out |-> InvoiceVerbal(data)]
    /\ UNCHANGED <<now, memoryCache, kvStore, wrapper, harnessVars, serverVars>>

\* the inputs still to choose from: one call is made in a behaviour
Untried(inputs) == IF applied = NotApplied THEN inputs ELSE {}

ApplyNext ==
    \/ \E params \in Untried(SheetQueryParams), outcome \in SheetOutcomes :
          ApplyGetSheetData(params, outcome)
    \/ \E q \in Untried(SheetTexts) : ApplySheetsParseQuery(q)
    \/ \E q \in Untried(Texts), today \in Todays : ApplyInvoiceParseQuery(q, today)
    \/ \E q \in Untried(IntentTexts), today \in Todays : ApplyAnalyzeIntent(q, today)
    \/ \E data \in Untried(VerbalSheetData) : ApplySheetsVerbal(data)
    \/ \E data \in Untried(VerbalInvoiceData) : ApplyInvoiceVerbal(data)

ApplySpec == ApplyInit /\ [][ApplyNext]_vars

-----------------------------------------------------------------------------
(* Claims on the cache layer, checked under CacheSpec *)

TtlMs == ttlSeconds * MsPerSecond
Active(c) == call[c].fn # "none"

C2_ExpiredNeverServed ==
    \A c \in Callers :
        (~wrapper.kv /\ Active(c)) =>
            /\ ~call[c].invoked =>
                  /\ call[c].entry # JsNull
                  /\ call[c].startedAt < call[c].entry.expires
                  /\ resp[c] = Returned(call[c].entry.value)
            /\ (call[c].entry # JsNull /\ call[c].startedAt >= call[c].entry.expires) =>
                  /\ call[c].invoked
                  /\ (pc[c] = "returned" /\ ~resp[c].threw) =>
                        /\ resp[c].value = original(call[c].arg, call[c].serial)
                        /\ resp[c].value # call[c].entry.value

\* a call that found an entry exactly at its expiry time and returned afresh
C2_Witness ==
    \E c \in Callers :
        /\ ~wrapper.kv
        /\ Active(c)
        /\ call[c].entry # JsNull
        /\ call[c].startedAt = call[c].entry.expires
        /\ pc[c] = "returned"
        /\ ~resp[c].threw

\* the value the cache holds for a key, on the backend the wrapper uses
CachedValue(key) ==
    IF wrapper.kv THEN JsonParse(kvStore[key].raw) ELSE memoryCache[key].value
Cached(key) ==
    IF wrapper.kv THEN key \in DOMAIN kvStore ELSE key \in DOMAIN memoryCache
\* a call of the wrapper that has invoked fn and got its result
Fetched(c) ==
    Active(c) /\ call[c].invoked /\ pc[c] = "returned" /\ ~resp[c].threw

\* C18: two calls with the same key that both look up before any result is
\* stored under it both invoke fn; a call that invoked fn returns the result
\* of its own invocation; a call that did not returns the value of a store
\* that was complete at its lookup; and the entry in the cache is the value
\* of the store that happened last.
C18_NoCoalescing ==
    /\ \A c \in Callers : \A d \in Callers \ {c} :
           ( /\ Active(c) /\ Active(d) /\ call[c].key = call[d].key
             /\ call[c].prior = JsNull /\ call[d].prior = JsNull )
           => ( /\ call[c].invoked /\ call[d].invoked
                /\ call[c].serial # call[d].serial
                /\ invocation >= 2 )
    /\ \A c \in Callers :
           /\ Fetched(c) => resp[c].value = original(call[c].arg, call[c].serial)
           /\ (Active(c) /\ ~call[c].invoked) =>
                  /\ call[c].prior # JsNull
                  /\ resp[c] = Returned(call[c].prior.value)
    /\ \A key \in DOMAIN stored :
           Cached(key) /\ CachedValue(key) = stored[key].value

\* both callers looked up the same key before any store, both invoked fn
\* within the TTL of each other, each has the result of its own invocation,
\* and the cache holds the result of the first invocation, stored last
C18_Witness ==
    \E c \in Callers : \E d \in Callers \ {c} :
        /\ Fetched(c) /\ Fetched(d)
        /\ call[c].key = call[d].key
        /\ call[c].prior = JsNull /\ call[d].prior = JsNull
        /\ call[c].serial = 1 /\ call[d].serial = 2
        /\ call[d].startedAt < call[c].startedAt + TtlMs
        /\ invocation = 2
        /\ resp[c].value # resp[d].value
        /\ CachedValue(call[c].key) = resp[c].value

\* C28: when fn rejects, the caller gets the rejection and the step writes to
\* neither backend; a rejection is always that of the call's own invocation;
\* and what the cache serves is the value of a completed store, so a call
\* that finds none invokes fn again.
C28_RejectionNotCached ==
    /\ [](\A c \in Callers :
             /\ (Active(c) /\ resp[c].threw) => call[c].invoked
             /\ (Active(c) /\ ~call[c].invoked) =>
                    /\ pc[c] = "returned" /\ ~resp[c].threw
                    /\ call[c].prior # JsNull
                    /\ resp[c].value = call[c].prior.value
             /\ (Active(c) /\ call[c].prior = JsNull) => call[c].invoked)
    /\ [][\A c \in Callers :
             (pc[c] = "pending" /\ pc'[c] = "returned" /\ resp'[c].threw)
             => /\ resp'[c] = Threw("fn rejected")
                /\ UNCHANGED <<memoryCache, kvStore, stored>>]_vars

\* fn rejected for one caller and nothing was stored; a later call with the
\* same argument invoked fn again and has its result
C28_Witness ==
    \E c \in Callers : \E d \in Callers \ {c} :
        /\ Active(c) /\ pc[c] = "returned" /\ resp[c].threw
        /\ call[c].serial = 1
        /\ Active(d) /\ call[d].key = call[c].key
        /\ call[d].startedAt > call[c].startedAt
        /\ call[d].prior = JsNull
        /\ call[d].invoked /\ call[d].serial = 2
        /\ pc[d] = "returned"
        /\ resp[d] = Returned(original(call[d].arg, 2))

-----------------------------------------------------------------------------
(* Claims on the dispatcher, checked under Spec *)

Answered == stage = "responded"
ToolCall == request # JsNull /\ request.method = "tools/call"
CacheUntouched ==
    /\ ~fx.hit /\ ~fx.stored
    /\ <<memoryCache, kvStore>> = fx.before
ErrorCode(code) == Has(response, "error") /\ response.error.code = code

\* C3: every response to a tools/call request carries the id of that
\* request, whichever way the call went: success, unknown tool, invalid
\* arguments, interpreter failure or adapter failure.
C3_ToolCallEchoesId ==
    (Answered /\ ToolCall) => (Has(response, "id") /\ response.id = request.id)

\* an adapter failure answered with the id of the request
C3_Witness ==
    /\ Answered /\ ToolCall
    /\ request.id = "req-1"
    /\ fx.adapter /\ fx.fetches > 0
    /\ Has(response, "error")
    /\ response.id = "req-1"

\* C4 as stated: a tools/call whose tool name tools/list does not return is
\* answered with code -32602 and the id of the request, no adapter is invoked
\* and the cache is unchanged, in every server configuration.
C4_AsStated ==
    (Answered /\ ToolCall /\ NameOf(request) \notin ToolNames(server))
    => /\ ErrorCode(InvalidParams)
       /\ response.id = request.id
       /\ ~fx.adapter /\ fx.fetches = 0
       /\ CacheUntouched

\* C4 amended: such a call is answered with an error and the id of the
\* request, no adapter is invoked and the cache is unchanged; the code is
\* -32602, except that search_quickbooks_invoices on a server without the
\* invoice service is answered with -32601.
C4_UnknownTool ==
    (Answered /\ ToolCall /\ NameOf(request) \notin ToolNames(server))
    => /\ IF NameOf(request) = "search_quickbooks_invoices"
          THEN ErrorCode(MethodNotFound)
          ELSE ErrorCode(InvalidParams)
       /\ ~Has(response, "result")
       /\ response.id = request.id
       /\ ~fx.adapter /\ fx.fetches = 0
       /\ CacheUntouched

\* an unknown tool answered while the cache holds an entry
C4_Witness ==
    /\ Answered /\ ToolCall
    /\ NameOf(request) = "no_such_tool"
    /\ Has(ParamsOf(request), "arguments")
    /\ ErrorCode(InvalidParams)
    /\ DOMAIN memoryCache \cup DOMAIN kvStore # {}

\* C5: handleRequest returns an envelope for every request: it has exactly
\* one of result and error, and an error has a code among -32601, -32602,
\* -32603 and a message.
C5_EnvelopeWellFormed ==
    Answered
    => /\ Has(response, "result") # Has(response, "error")
       /\ Has(response, "error")
          => /\ Has(response.error, "code")
             /\ response.error.code \in {MethodNotFound, InvalidParams, InternalError}
             /\ Has(response.error, "message")
             /\ response.error.message # <<>>

\* a request without params answered with an error that has a message
C5_Witness ==
    /\ Answered /\ ToolCall
    /\ ~Has(request, "params")
    /\ Has(response, "error") /\ ~Has(response, "result")
    /\ response.error.message = <<"Unknown tool: ", Undefined>>

DataTools == {"query_google_sheets", "search_quickbooks_invoices"}
Registered == NameOf(request) \in ToolNames(server)

\* the inputSchema that tools/list declares for the tool: `required`, and the
\* enum of responseFormat; an empty required string counts as missing
InputSchemaViolated(name, args) ==
    \/ IsUndefinedArgs(args)
    \/ name \in DataTools /\ QueryFalsy(args)
    \/ name \in DataTools /\ Has(args, "responseFormat")
                          /\ args.responseFormat \notin ResponseFormats
    \/ name = "get_sheet_info" /\ ~Truthy(ArgOr(args, "spreadsheetId"))

\* C6: a tools/call on a registered tool whose arguments violate the declared
\* inputSchema is answered with code -32602 before any handler work: no
\* adapter fetch, no cache access, never a success result.
C6_SchemaViolationRejected ==
    (Answered /\ ToolCall /\ Registered
        /\ InputSchemaViolated(NameOf(request), ArgsOf(request)))
    => /\ ErrorCode(InvalidParams)
       /\ ~Has(response, "result")
       /\ ~fx.adapter /\ fx.fetches = 0
       /\ CacheUntouched

\* C7: a successful call of a data-returning tool with responseFormat
\* 'structured' has data and no verbalResponse, with 'verbal' has
\* verbalResponse and no data, with 'both' has both.
C7_FormatSelectsOutputs ==
    (Answered /\ ToolCall /\ NameOf(request) \in DataTools
        /\ Has(response, "result") /\ Has(ArgsOf(request), "responseFormat"))
    => LET format == ArgsOf(request).responseFormat
           result == response.result
       IN /\ format = "structured"
             => Has(result, "data") /\ ~Has(result, "verbalResponse")
          /\ format = "verbal"
             => Has(result, "verbalResponse") /\ ~Has(result, "data")
          /\ format = "both"
             => Has(result, "verbalResponse") /\ Has(result, "data")

\* a 'verbal' call answered from the cache, and the data kept out of it
C7_Witness ==
    /\ Answered /\ ToolCall /\ NameOf(request) \in DataTools
    /\ Has(ArgsOf(request), "responseFormat")
    /\ ArgsOf(request).responseFormat = "verbal"
    /\ fx.hit
    /\ Has(response, "result")
    /\ DOMAIN response.result = {"verbalResponse"}

\* C8: a successful call of a data-returning tool without responseFormat has
\* both verbalResponse and data, in every implementation of the tool.
C8_OmittedFormatIsBoth ==
    (Answered /\ ToolCall /\ NameOf(request) \in DataTools
        /\ Has(response, "result")
        /\ ~IsUndefinedArgs(ArgsOf(request))
        /\ ~Has(ArgsOf(request), "responseFormat"))
    => /\ Has(response.result, "verbalResponse")
       /\ Has(response.result, "data")

\* absent: undefined or the empty string
Absent(x) == x = Undefined \/ x = ""
ExpectedSourceId(query, override, default) ==
    IF InlineId(query) # Undefined THEN InlineId(query)
    ELSE IF ~Absent(override) THEN override
    ELSE default

\* a query_google_sheets call that got as far as the interpreter
Interpreted ==
    /\ stage \in {"awaiting", "responded"} /\ ToolCall
    /\ NameOf(request) = "query_google_sheets"
    /\ ~InputSchemaViolated("query_google_sheets", ArgsOf(request))

\* C9: parseQuery takes the inline id of the text, else the override, else
\* the configured default; it throws exactly when all three are absent, and
\* then the dispatcher answers with an error without invoking the adapter.
C9_SourceIdPrecedence ==
    Interpreted
    => LET query == ArgsOf(request).query
           override == ArgOr(ArgsOf(request), "spreadsheetId")
           default == server.defaultSpreadsheetId
           expected == ExpectedSourceId(query, override, default)
           allAbsent == /\ InlineId(query) = Undefined
                        /\ Absent(override) /\ Absent(default)
           parsed == parseQuery(query, override, default)
       IN /\ parsed.threw <=> allAbsent
          /\ ~allAbsent
             => /\ parsed.value.spreadsheetId = expected
                /\ Plan.kind = "call"
                /\ Plan.params.spreadsheetId = expected
                /\ (Answered /\ Has(response, "result") /\ Has(response.result, "data"))
                   => response.result.data.spreadsheetId = expected
          /\ allAbsent
             => /\ Answered
                /\ Has(response, "error") /\ ~Has(response, "result")
                /\ ~fx.adapter /\ fx.fetches = 0
                /\ CacheUntouched

\* inline id, override and default all there: the data is of the inline id
C9_Witness ==
    /\ Answered /\ Interpreted
    /\ InlineId(ArgsOf(request).query) = "abc123"
    /\ ArgOr(ArgsOf(request), "spreadsheetId") = "sheet-override"
    /\ server.defaultSpreadsheetId = "sheet-default"
    /\ Has(response, "result") /\ Has(response.result, "data")
    /\ response.result.data.spreadsheetId = "abc123"

Unauthenticated == ~Truthy(tokens.accessToken) \/ ~Truthy(tokens.companyId)
\* an invoice search that got as far as searchInvoices
InvoiceSearch ==
    /\ Answered /\ ToolCall /\ Registered
    /\ NameOf(request) = "search_quickbooks_invoices"
    /\ ~IsUndefinedArgs(ArgsOf(request)) /\ ~QueryFalsy(ArgsOf(request))
InvoiceEntries ==
    {memoryCache[k].value : k \in {x \in DOMAIN memoryCache : x[1] = "bound searchInvoices"}}
    \cup {JsonParse(kvStore[k].raw) : k \in {x \in DOMAIN kvStore : x[1] = "bound searchInvoices"}}

-----------------------------------------------------------------------------
\* the value the cache handed to the request that hit
HitValue == CacheLookup(AdapterKey(Plan), now).value

\* C14: a value stored through the wrapper of one adapter instance is never
\* returned by the wrapper of another one called with equal arguments: an
\* invoice search answered from the cache gets a result that was fetched for
\* the company its own adapter holds credentials for.
C14_EntryOfOwnCredentials ==
    (InvoiceSearch /\ fx.hit) => HitValue.companyId = tokens.companyId

\* C16: while handling one request each upstream request is sent at most
\* once: an invoice search, whose only upstream request is the invoice query,
\* sends it once at most, whatever status the upstream answers with.
C16_InvoiceQuerySentOnce ==
    InvoiceSearch => fx.fetches <= 1

\* C16, apart from the answer 401: an invoice search sends its query a second
\* time only after a token refresh, and never a third time.
C16_ResentOnlyAfterRefresh ==
    InvoiceSearch =>
        /\ fx.fetches <= 2
        /\ fx.fetches = 2 => fx.refreshes = 1

\* handleRequest takes up an initialize or a tools/list request
ListingStep ==
    /\ stage = "idle" /\ stage' # "idle"
    /\ request'.method \in {"initialize", "tools/list"}

\* C17: the names of the registered tools are pairwise distinct; no step
\* changes the registry; tools/list returns the registry as the constructor
\* built it; and handling initialize or tools/list answers at once without
\* calling an adapter, reading or writing a cache backend, sending an
\* upstream request or touching the credentials.
C17_RegistryFixed ==
    /\ [](Cardinality(ToolNames(server)) = Len(server.tools))
    /\ [][ /\ server' = server
           /\ ListingStep =>
                 /\ stage' = "responded"
                 /\ ~Has(response', "error")
                 /\ request'.method = "tools/list" =>
                        response'.result.tools = server.tools
                 /\ fx' = [NoFx EXCEPT !.before = <<memoryCache, kvStore>>]
                 /\ UNCHANGED <<memoryCache, kvStore, tokens>> ]_vars

\* tools/list answered with the three descriptors after an earlier tools/call
\* has left an entry in the cache and credentials are set
C17_Witness ==
    /\ Answered /\ request.method = "tools/list"
    /\ served >= 1
    /\ response.result.tools =
           <<"query_google_sheets", "get_sheet_info", "search_quickbooks_invoices">>
    /\ DOMAIN memoryCache \cup DOMAIN kvStore # {}
    /\ tokens # NoTokens
    /\ <<memoryCache, kvStore>> = fx.before

\* The server as the runtime schedules it: an envelope that is ready is
\* handed to the caller; whether and when a fetch settles is up to the
\* upstream, and no step of the handlers ends an await that has not settled
LiveSpec == Spec /\ WF_vars(Deliver)

\* C15: every tools/call that waits for an upstream call eventually has its
\* response envelope, whether or not the upstream call completes.
C15_AwaitEndsInResponse ==
    (stage = "awaiting") ~> (stage = "responded")

-----------------------------------------------------------------------------
(* Claims on the adapters and the interpreters called on their own,        *)
(* checked under ApplySpec                                                 *)

\* the title of the sheet a name stands for: the sheet whose title equals it
\* without regard to case, else the first sheet
TitleFor(name) ==
    LET at == {i \in 1..Len(UpstreamSheets) :
                  LowerTitle(UpstreamSheets[i].title) = LowerTitle(name)}
    IN IF at = {} THEN UpstreamSheets[1].title ELSE UpstreamSheets[Min(at)].title
SheetDataCall ==
    /\ applied.fn = "getSheetData"
    /\ applied.outcome = "ok"
    /\ Has(applied.params, "sheetName") /\ applied.params.sheetName # ""

\* C11 as stated: getSheetData called with a sheetName does not fail for the
\* name's sake; it reads the sheet whose title equals the name without regard
\* to case, else the first sheet, and the sheetName of the result is the title
\* of the sheet that was read.
C11_NamedSheetIsRead ==
    SheetDataCall
    => /\ ~applied.out.threw
       /\ applied.out.value.sheetName = TitleFor(applied.params.sheetName)
       /\ applied.out.value.range.sheet = applied.out.value.sheetName

\* the same for calls that give no range of their own
C11_NamedSheetIsReadWithoutRange ==
    (SheetDataCall /\ ~Has(applied.params, "range")) => C11_NamedSheetIsRead

\* the interpreters that resolve dates and amounts, and what they resolved
Interpreters == {"quickBooks.parseQuery", "QueryParser.analyzeIntent"}
IntentOf(a) == IF a.fn = "QueryParser.analyzeIntent" THEN a.out.entities ELSE a.out
\* the places of the text where two ISO dates stand with `to`, `through`, `-`
\* or `until` between them
IsoPairsIn(q) ==
    {i \in 1..(Len(q) - 2) : /\ IsIsoDate(q[i])
                             /\ q[i + 1] \in {"to", "through", "-", "until"}
                             /\ IsIsoDate(q[i + 2])}

\* C12 as stated: for a text with one explicit pair of ISO dates D1 and D2,
\* whatever its other words are, the dateRange of each interpreter is exactly
\* {start: D1, end: D2}.
C12_IsoPairIsDateRange ==
    (applied.fn \in Interpreters /\ Cardinality(IsoPairsIn(applied.query)) = 1)
    => LET i == Min(IsoPairsIn(applied.query))
       IN /\ Has(IntentOf(applied), "dateRange")
          /\ IntentOf(applied).dateRange =
                 [start |-> applied.query[i], end |-> applied.query[i + 2]]

\* C12 amended: the invoice interpreter resolves a text with explicit pairs of
\* ISO dates to the first pair, whatever its other words are; QueryParser does
\* so if the text has no relative keyword, no month name and no ISO date
\* before the pair.
PairComesFirst(q) ==
    /\ \A k \in 1..Len(RelativeKeys) : ~IncludesPhrase(q, RelativeKeys[k])
    /\ \A m \in 1..Len(Months) : ~Includes(q, Months[m])
    /\ \A j \in 1..(Min(IsoPairsIn(q)) - 1) : ~IsIsoDate(q[j])
C12_FirstIsoPairIsDateRange ==
    (/\ applied.fn \in Interpreters
     /\ IsoPairsIn(applied.query) # {}
     /\ applied.fn = "QueryParser.analyzeIntent" => PairComesFirst(applied.query))
    => LET i == Min(IsoPairsIn(applied.query))
       IN /\ Has(IntentOf(applied), "dateRange")
          /\ IntentOf(applied).dateRange =
                 [start |-> applied.query[i], end |-> applied.query[i + 2]]

\* QueryParser resolved a pair that has other words before it
C12_Witness ==
    /\ applied.fn = "QueryParser.analyzeIntent"
    /\ applied.query = <<"over", "1000000", "2025-01-01", "to", "2025-01-31">>
    /\ applied.out.entities.dateRange = [start |-> "2025-01-01", end |-> "2025-01-31"]

\* the words the interpreters read as a sign of a date, an amount or a limit,
\* the separators of their patterns among them
DateKeywords ==
    {"today", "yesterday", "this", "last", "week", "month", "year", "since", "after",
     "from", "before", "until", "between", "to", "through", "and", "-"}
    \cup {Months[m] : m \in 1..Len(Months)}
AmountKeywords ==
    {"amount", "total", "value", "between", "from", "to", "and", "-", "over", "above",
     "greater", "more", "than", "under", "below", "less", "exactly", "equal", "equals"}
LimitKeywords ==
    {"first", "last", "top", "limit", "show", "row", "rows", "record", "records",
     "result", "results", "item", "items"}
NoKeywords(q) ==
    \A i \in 1..Len(q) :
        Lower(q[i]) \notin DateKeywords \cup AmountKeywords \cup LimitKeywords

\* C13 as stated: for a text without amount, date and limit keywords the
\* intent has no amountRange and no dateRange, and the limit is the default:
\* 5 from the tabular interpreter, 10 from the invoice interpreter.
C13_NoKeywordsGivesDefaults ==
    (applied.fn \in Interpreters \cup {"sheets.parseQuery"} /\ NoKeywords(applied.query))
    => /\ applied.fn = "sheets.parseQuery"
          => /\ ~applied.out.threw
             /\ applied.out.value.limit = DefaultSheetLimit
       /\ applied.fn \in Interpreters
          => /\ ~Has(IntentOf(applied), "dateRange")
             /\ ~Has(IntentOf(applied), "amountRange")
       /\ applied.fn = "quickBooks.parseQuery"
          => applied.out.limit = DefaultInvoiceLimit

\* the same for the texts that have no ISO date either
C13_NoKeywordsNoDatesGivesDefaults ==
    (/\ applied.fn \in Interpreters \cup {"sheets.parseQuery"}
     /\ \A i \in 1..Len(applied.query) : ~IsIsoDate(applied.query[i]))
    => C13_NoKeywordsGivesDefaults

\* what the order relative keyword, month name, ISO date asks of a text with
\* a relative keyword or a month name
FirstRelativeKey(q) ==
    Min({k \in 1..Len(RelativeKeys) : IncludesPhrase(q, RelativeKeys[k])})
HasRelativeKey(q) == \E k \in 1..Len(RelativeKeys) : IncludesPhrase(q, RelativeKeys[k])
HasMonth(q) == \E m \in 1..Len(Months) : Includes(q, Months[m])

\* C19 as stated: every date resolver gives a text with a relative keyword
\* the range of that keyword, whatever ISO dates or month names it also has,
\* and a text with a month name and no relative keyword a range of that month.
C19_FirstStrategyWins ==
    applied.fn \in Interpreters
    => /\ HasRelativeKey(applied.query)
          => /\ Has(IntentOf(applied), "dateRange")
             /\ IntentOf(applied).dateRange =
                    RelativeDateRange(FirstRelativeKey(applied.query), applied.today)
       /\ (~HasRelativeKey(applied.query) /\ HasMonth(applied.query))
          => /\ Has(IntentOf(applied), "dateRange")
             /\ IntentOf(applied).dateRange \in
                    {MonthRange[k] : k \in DOMAIN MonthRange}

\* the same for QueryParser alone
C19_FirstStrategyWinsInQueryParser ==
    applied.fn = "QueryParser.analyzeIntent" => C19_FirstStrategyWins

\* the same for the invoice interpreter and the one case of `today` next to
\* explicit ISO dates
C19_TodayWinsInInvoiceInterpreter ==
    (/\ applied.fn = "quickBooks.parseQuery"
     /\ Includes(applied.query, "today")
     /\ \E i \in 1..Len(applied.query) : IsIsoDate(applied.query[i]))
    => /\ Has(applied.out, "dateRange")
       /\ applied.out.dateRange = [start |-> applied.today, end |-> applied.today]

\* C20 as stated: every range of an intent is well ordered, for every text and
\* every day: a dateRange has start <= end, an amountRange has min <= max.
C20_RangesWellOrdered ==
    applied.fn \in Interpreters
    => /\ Has(IntentOf(applied), "dateRange")
          => DateNumber(IntentOf(applied).dateRange.start)
                 <= DateNumber(IntentOf(applied).dateRange.end)
       /\ Has(IntentOf(applied), "amountRange")
          => IntentOf(applied).amountRange.min <= IntentOf(applied).amountRange.max

\* the same for the ranges the relative keywords and the month names give
C20_KeywordRangesWellOrdered ==
    (/\ applied.fn = "QueryParser.analyzeIntent"
     /\ HasRelativeKey(applied.query) \/ HasMonth(applied.query)
     /\ Has(applied.out.entities, "dateRange"))
    => DateNumber(applied.out.entities.dateRange.start)
           <= DateNumber(applied.out.entities.dateRange.end)

-----------------------------------------------------------------------------
\* the action the stated rule resolves a text to
ResolvedAction(q) ==
    IF Includes(q, "invoice") THEN "search_invoices"
    ELSE IF Includes(q, "info") \/ Includes(q, "details") THEN "get_sheet_info"
    ELSE IF Includes(q, "range") \/ HasCellRange(q) THEN "get_range"
    ELSE "get_rows"

\* C21: the action an interpreter resolves a text to is the one of the rule:
\* search with the invoice keyword anywhere, else info, else range, else row
\* fetch; so it is one of the four declared actions.
C21_ActionIsResolved ==
    applied.fn \in Interpreters
    => applied.out.action = ResolvedAction(applied.query)

\* C21 for QueryParser on texts that name a domain: with "invoice" or "sheet"
\* in the text analyzeIntent resolves the action as the rule says.
C21_ResolvedWhenDomainNamed ==
    ( /\ applied.fn = "QueryParser.analyzeIntent"
      /\ Includes(applied.query, "invoice") \/ Includes(applied.query, "sheet") )
    => applied.out.action = ResolvedAction(applied.query)

\* C21 for the invoice interpreter: a text with "info" is not a search,
\* whether or not it has the invoice keyword.
C21_InvoiceKeywordWinsInInvoiceInterpreter ==
    ( /\ applied.fn = "quickBooks.parseQuery"
      /\ Includes(applied.query, "invoice") )
    => applied.out.action = "search_invoices"

-----------------------------------------------------------------------------
\* a call of getSheetData that got its values, without a range of its own
SheetRead ==
    /\ applied.fn = "getSheetData"
    /\ applied.outcome = "ok"
    /\ ~Has(applied.params, "range")
LimitOf(params) == IF Has(params, "limit") THEN params.limit ELSE 0
OffsetOf(params) == IF Has(params, "offset") THEN params.offset ELSE 0
\* the sheet the call is about: its header row and its data rows
SheetOf(params) ==
    LET title == TitleFor(IF Has(params, "sheetName") THEN params.sheetName ELSE "")
        at == {i \in 1..Len(UpstreamSheets) : UpstreamSheets[i].title = title}
    IN UpstreamSheets[Min(at)].values
\* data rows from + 1 .. to of the sheet, as row objects
RowsBetween(params, from, to) ==
    [i \in 1..(IF to > from THEN to - from ELSE 0) |->
        RowObject(SheetOf(params)[1], Tail(SheetOf(params))[from + i])]
\* a call with limit n > 0 and all columns
PagedRead ==
    /\ SheetRead
    /\ LimitOf(applied.params) > 0
    /\ ~Has(applied.params, "requestedColumns")

\* C22: with offset k and limit n > 0 on a sheet of m data rows the rows
\* returned are data rows k+1 .. min(k+n, m) in sheet order, and totalRows is
\* max(m - k, 0).
C22_OffsetThenLimit ==
    PagedRead =>
        LET k == OffsetOf(applied.params)
            n == LimitOf(applied.params)
            m == Len(SheetOf(applied.params)) - 1
        IN /\ applied.out.value.rows = RowsBetween(applied.params, k, Min({k + n, m}))
           /\ applied.out.value.totalRows = Max({m - k, 0})

\* what getSheetData does instead: the limit bounds the rows fetched, the
\* offset is taken from those, and totalRows counts the rows fetched.
C22_OffsetWithinLimit ==
    PagedRead =>
        LET k == OffsetOf(applied.params)
            n == LimitOf(applied.params)
            m == Len(SheetOf(applied.params)) - 1
        IN /\ applied.out.value.rows = RowsBetween(applied.params, k, Min({n, m}))
           /\ applied.out.value.totalRows = Min({n, m})

-----------------------------------------------------------------------------
\* a call of getSheetData that got its values and was given a limit
LimitedRead ==
    /\ applied.fn = "getSheetData"
    /\ applied.outcome = "ok"
    /\ Has(applied.params, "limit")

\* C23: for every limit >= 0, 0 included, getSheetData returns at most limit
\* rows.
C23_RowsWithinLimit ==
    LimitedRead => Len(applied.out.value.rows) <= applied.params.limit

\* C23 for limits above 0, with or without a range, an offset and columns
C23_RowsWithinPositiveLimit ==
    (LimitedRead /\ applied.params.limit > 0)
    => Len(applied.out.value.rows) <= applied.params.limit

-----------------------------------------------------------------------------
\* a call of getSheetData that asked for columns and got values with a header
ProjectedRead ==
    /\ applied.fn = "getSheetData"
    /\ applied.outcome = "ok"
    /\ Has(applied.params, "requestedColumns")
    /\ Len(applied.params.requestedColumns) > 0
    /\ applied.out.value.totalRows > 0
\* the result of the same call without requestedColumns
Unprojected ==
    getSheetData([k \in DOMAIN applied.params \ {"requestedColumns"} |-> applied.params[k]],
                 "ok", now).value
\* the headers the requested columns match, in the order of the request
MatchedHeaders ==
    LET at == ColumnIndices(Unprojected.headers, applied.params.requestedColumns)
    IN [i \in 1..Len(at) |-> Unprojected.headers[at[i]]]
HeaderSet(headers) == {headers[i] : i \in 1..Len(headers)}

\* C24: when none of the requested columns matches a header the result has
\* all headers and the full rows; when some match, the unmatched ones are
\* dropped and every row has exactly the matched headers as keys.
C24_ProjectionFailsOpen ==
    ProjectedRead =>
        /\ ~applied.out.threw
        /\ MatchedHeaders = <<>> =>
              /\ applied.out.value.headers = Unprojected.headers
              /\ applied.out.value.rows = Unprojected.rows
        /\ MatchedHeaders # <<>> =>
              /\ applied.out.value.headers = MatchedHeaders
              /\ \A r \in 1..Len(applied.out.value.rows) :
                     DOMAIN applied.out.value.rows[r] = HeaderSet(MatchedHeaders)

\* what getSheetData does: the projection is applied whatever matched, so
\* with no match the result has no headers and every row is the empty object
C24_ProjectionAlwaysApplied ==
    ProjectedRead =>
        /\ ~applied.out.threw
        /\ applied.out.value.headers = MatchedHeaders
        /\ Len(applied.out.value.rows) = Len(Unprojected.rows)
        /\ \A r \in 1..Len(applied.out.value.rows) :
               /\ DOMAIN applied.out.value.rows[r] = HeaderSet(MatchedHeaders)
               /\ \A h \in HeaderSet(MatchedHeaders) :
                      applied.out.value.rows[r][h] = Unprojected.rows[r][h]

-----------------------------------------------------------------------------
Formatters == {"sheets.formatForVerbalResponse", "quickBooks.formatForVerbalResponse"}
\* the records of the dataset a formatter was given, the per-record entries of
\* its text, and the N of its "and N more" trailer (0: no trailer)
RecordsOf(a) ==
    IF a.fn = "sheets.formatForVerbalResponse" THEN a.data.rows ELSE a.data.invoices
EntriesOf(a) ==
    IF a.fn = "sheets.formatForVerbalResponse" THEN a.out.lines ELSE a.out.entries
MoreOf(a) ==
    IF a.fn = "sheets.formatForVerbalResponse" THEN a.out.more ELSE 0

\* C25: for a dataset of n > 0 records the verbal text of each formatter has
\* min(n, 10) per-record entries, the first ones of the dataset, and an
\* "and N more" trailer with N = n - 10 exactly when n > 10.
C25_VerbalCapped ==
    (applied.fn \in Formatters /\ Len(RecordsOf(applied)) > 0) =>
        LET n == Len(RecordsOf(applied))
        IN /\ EntriesOf(applied) = SubSeq(RecordsOf(applied), 1, Min({n, VerbalDisplayCap}))
           /\ MoreOf(applied) = IF n > VerbalDisplayCap THEN n - VerbalDisplayCap ELSE 0

\* C25 for the tabular formatter alone
C25_SheetsVerbalCapped ==
    applied.fn = "sheets.formatForVerbalResponse" => C25_VerbalCapped

-----------------------------------------------------------------------------
\* the invoice formatter called with a dataset without records
NothingFound ==
    /\ applied.fn = "quickBooks.formatForVerbalResponse"
    /\ Len(applied.data.invoices) = 0

\* C26: for an invoice dataset without records the verbal text is the
\* nothing-found sentence; it names the date filter, with its start and end,
\* exactly when queryInfo has a dateRange, and the amount filter, with its min
\* and max, exactly when queryInfo has an amountRange.
C26_ActiveFiltersNamed ==
    NothingFound =>
        /\ applied.out.text = "none"
        /\ Has(applied.out, "dateRange") <=> Has(applied.data.queryInfo, "dateRange")
        /\ Has(applied.out, "dateRange") =>
               applied.out.dateRange = applied.data.queryInfo.dateRange
        /\ Has(applied.out, "amountRange") <=> Has(applied.data.queryInfo, "amountRange")
        /\ Has(applied.out, "amountRange") =>
               applied.out.amountRange = applied.data.queryInfo.amountRange

\* nothing found for a search with both ranges set: both are named
C26_Witness ==
    /\ NothingFound
    /\ Has(applied.data.queryInfo, "dateRange")
    /\ Has(applied.data.queryInfo, "amountRange")
    /\ applied.out.dateRange = [start |-> "2025-01-01", end |-> "2025-01-31"]
    /\ applied.out.amountRange = [min |-> 100, max |-> SentinelMaxAmount]

-----------------------------------------------------------------------------
\* query_google_sheets answered with a verbal response
SheetsSpoken ==
    /\ Answered /\ ToolCall
    /\ NameOf(request) = "query_google_sheets"
    /\ Has(response, "result")
    /\ Has(response.result, "verbalResponse")
\* the number of rows the query asks for (0: none given), and the data rows
\* of the sheet that is read, the first one
RowsAskedFor == LimitAfter(ArgsOf(request).query, SheetLimitWords)
DataRowsOfSheet == Len(UpstreamSheets[1].values) - 1

\* C27: when the query asks for the first N rows of a sheet with M > N data
\* rows, the verbal response says "showing first N of M total rows".
C27_ShowingFirstOfTotal ==
    (SheetsSpoken /\ RowsAskedFor > 0 /\ DataRowsOfSheet > RowsAskedFor)
    => /\ response.result.verbalResponse.showingFirst = RowsAskedFor
       /\ response.result.verbalResponse.ofTotal = DataRowsOfSheet

\* what the server says instead: the count of the rows found, and never
\* "showing first N of M"
C27_NeverShowingFirst ==
    (SheetsSpoken /\ response.result.verbalResponse.text = "rows")
    => /\ response.result.verbalResponse.showingFirst = 0
       /\ response.result.verbalResponse.ofTotal = 0

-----------------------------------------------------------------------------
\* the id an envelope carries; undefined when it has none
IdOf(envelope) == IF Has(envelope, "id") THEN envelope.id ELSE Undefined

\* C29: the envelope handleRequest returns carries the id of its request,
\* whatever the method.
C29_EveryEnvelopeEchoesId ==
    Answered => IdOf(response) = request.id

\* C29 for tools/call and for methods the server does not know
C29_IdEchoedUnlessListing ==
    (Answered /\ request.method \notin {"initialize", "tools/list"})
    => IdOf(response) = request.id

\* the envelopes of initialize and tools/list never have an id
C29_ListingHasNoId ==
    (Answered /\ request.method \in {"initialize", "tools/list"})
    => ~Has(response, "id")

-----------------------------------------------------------------------------
\* searchInvoices settles: the step in which makeApiCall runs
ApiCallStep ==
    /\ stage = "awaiting" /\ stage' = "responded"
    /\ Plan.fn = "searchInvoices"
AuthenticationFailed ==
    <<"Failed to query QuickBooks: ", "Failed to search QuickBooks invoices: ",
      "Authentication failed. Please re-authorize with QuickBooks.">>
ApiError ==
    <<"Failed to query QuickBooks: ", "Failed to search QuickBooks invoices: ",
      "QuickBooks API error: ", "status", " - ">>
FetchFailed ==
    <<"Failed to query QuickBooks: ", "Failed to search QuickBooks invoices: ",
      "fetch failed">>

\* C30: one makeApiCall sends at most two upstream requests and refreshes the
\* token at most once; it refreshes only when a refresh token is stored; it
\* sends the second request only after a refresh that succeeded, and then the
\* stored access token is the refreshed one; a failure of the second request
\* is reported as the failure of that request, never as a failed
\* authentication; a failed refresh ends the call after one request with the
\* authentication error and the stored tokens untouched; without a refresh
\* the stored tokens are untouched.
C30_AtMostOneRetry ==
    [][ApiCallStep =>
         /\ fx'.fetches <= 2 /\ fx'.refreshes <= 1
         /\ fx'.refreshes = 1 => Truthy(tokens.refreshToken) /\ fx'.fetches >= 1
         /\ fx'.fetches = 2 =>
               /\ fx'.refreshes = 1
               /\ tokens'.accessToken = "at-1"
               /\ Has(response', "error") => response'.error.message \in {ApiError, FetchFailed}
         /\ (fx'.refreshes = 1 /\ fx'.fetches = 1) =>
               /\ Has(response', "error")
               /\ response'.error.message = AuthenticationFailed
               /\ tokens' = tokens
         /\ fx'.refreshes = 0 => tokens' = tokens
         /\ (Has(response', "error") /\ response'.error.message = AuthenticationFailed)
               => fx'.refreshes = 1 /\ fx'.fetches = 1
       ]_vars

\* a 401, a successful refresh and a retried request the upstream rejects:
\* two requests, one refresh, the refreshed token stored, an API error
C30_Witness ==
    /\ InvoiceSearch /\ ~fx.hit
    /\ fx.fetches = 2 /\ fx.refreshes = 1
    /\ tokens.accessToken = "at-1"
    /\ Has(response, "error") /\ response.error.message = ApiError

\* a 401 and a refresh the token endpoint rejects: the authentication error
C30_FailedRefreshWitness ==
    /\ InvoiceSearch /\ ~fx.hit
    /\ fx.fetches = 1 /\ fx.refreshes = 1
    /\ tokens.accessToken = "at-0"
    /\ Has(response, "error") /\ response.error.message = AuthenticationFailed

====
